---- MODULE Spec2Model ----
(***************************************************************************)
(* Custodial signing client (crossmint.ts) and signer adapter              *)
(* (viemTransport.ts) of crossmint-lifi-poc, as a state machine.           *)
(*                                                                         *)
(* One behaviour follows one call: either a caller invokes                 *)
(* wallet.sendTransaction directly (Spec), or a route-execution engine     *)
(* builds a dispatch object and issues one request on it (SpecAdapter).    *)
(* Every await of the source is a step boundary; the code between two      *)
(* awaits is one action.                                                   *)
(***************************************************************************)
EXTENDS Integers, Sequences, FiniteSets, TLC

\* ------------------------------------------------------------------ bounds

\* Longest digit string (after the 0x prefix) of a request's hex value.
MaxHexLen == 2

\* ------------------------------------------------------- program constants

\* pollForHash(apiKey, locator, txId, maxAttempts = 120, intervalMs = 1000)
maxAttempts == 120

\* JS undefined, for string-typed fields.
Undefined == "undefined"

\* JS undefined, for the bigint-typed field params.value (bigints here are >= 0).
UndefinedBigInt == 0 - 1

\* getLocator(): CROSSMINT_WALLET_LOCATOR ?? "userId:demo-user:evm:smart"
getLocator == "userId:demo-user:evm:smart"

\* ------------------------------------------------------- hex conversions

\* A JS string holding a number is a sequence of one-character strings, so that
\* parsing and formatting are computed, digit by digit.
HexAlphabet == <<"0", "1", "2", "3", "4", "5", "6", "7",
                 "8", "9", "a", "b", "c", "d", "e", "f">>

DigitValue(c) == (CHOOSE k \in 1..Len(HexAlphabet) : HexAlphabet[k] = c) - 1

RECURSIVE DigitsValue(_, _)
DigitsValue(ds, radix) ==
    IF ds = <<>> THEN 0
    ELSE radix * DigitsValue(SubSeq(ds, 1, Len(ds) - 1), radix)
         + DigitValue(ds[Len(ds)])

\* BigInt("0x...") of a hex quantity string.
BigInt(s) == DigitsValue(SubSeq(s, 3, Len(s)), 16)

\* BigInt.prototype.toString(radix): no prefix, no leading zeros, lower case.
RECURSIVE toString(_, _)
toString(n, radix) ==
    IF n < radix THEN <<HexAlphabet[n + 1]>>
    ELSE toString(n \div radix, radix) \o <<HexAlphabet[(n % radix) + 1]>>

\* ------------------------------------------------------------ the backend

TxIds == {"tx-1", "tx-2"}
Hashes == {"0xaa", "0xbb"}

\* A transaction record as GET .../transactions/{id} returns it:
\* status, onChain?.txId (Undefined when onChain or txId is missing), and the
\* backend's failure detail.
NoData == [status |-> Undefined, txId |-> Undefined, error |-> Undefined]

Records ==
    [status : {"pending"}, txId : {Undefined, "0xaa"}, error : {Undefined}]
    \cup [status : {"awaiting-approval", "cancelled"}, txId : {Undefined},
          error : {Undefined}]
    \cup [status : {"success"}, txId : Hashes \cup {Undefined, ""},
          error : {Undefined}]
    \cup [status : {"failed"}, txId : {Undefined},
          error : {"execution_reverted", "out_of_gas"}]

\* What one status fetch can come back with: the fetch itself rejecting
\* (network error), a non-success HTTP status, a success status whose body
\* is not JSON (res.json() rejects), or a record.
NoResponse == [fetch |-> "none", ok |-> FALSE, json |-> FALSE, data |-> NoData]

PollResponses ==
    {[fetch |-> "rejects", ok |-> FALSE, json |-> FALSE, data |-> NoData],
     [fetch |-> "resolves", ok |-> FALSE, json |-> FALSE, data |-> NoData],
     [fetch |-> "resolves", ok |-> TRUE, json |-> FALSE, data |-> NoData]}
    \cup [fetch : {"resolves"}, ok : {TRUE}, json : {TRUE}, data : Records]

\* What the intent POST can come back with; id is body.id.
SubmitResponses ==
    {[fetch |-> "rejects", ok |-> FALSE, json |-> FALSE, id |-> Undefined],
     [fetch |-> "resolves", ok |-> FALSE, json |-> TRUE, id |-> Undefined],
     [fetch |-> "resolves", ok |-> TRUE, json |-> FALSE, id |-> Undefined]}
    \cup [fetch : {"resolves"}, ok : {TRUE}, json : {TRUE},
          id : TxIds \cup {Undefined, ""}]

\* ------------------------------------------------------------------ state

VARIABLES
    clientPc,    \* submitTransaction: "idle", "posting", "polling", "resolved", "rejected"
    sendCalls,   \* invocations of wallet.sendTransaction
    posts,       \* the POST .../transactions requests issued, in order
    txId,        \* body.id of the accepted intent
    i,           \* pollForHash's loop counter
    gets,        \* the GET .../transactions/{id} requests issued, in order of id
    lastPoll,    \* the response of the latest status fetch
    allPending,  \* every status fetch so far returned a record with status pending
    outcome      \* how the sendTransaction promise settled

VARIABLES
    adapterPc,   \* the dispatch object and its request: "unbuilt", "configError",
                 \* "ready", "awaitSend", "awaitRpc", "returned", "threw"
    viemClient,  \* buildCrossmintViemClient's chain and crossmintChain, which the
                 \* built dispatch object closes over
    req,         \* the request({method, params}) issued on the dispatch object
    rpcCalls,    \* the JSON-RPC POSTs issued to chain RPC URLs, in order
    rpcReplies,  \* what each of those POSTs came back with, in order
    result       \* how the request promise settled

clientVars ==
    <<clientPc, sendCalls, posts, txId, i, gets, lastPoll, allPending, outcome>>

adapterVars == <<adapterPc, viemClient, req, rpcCalls, rpcReplies, result>>

VARIABLES
    execPc,         \* executeBridgeRoute: "idle", "executing", "resolved", "rejected"
    options,        \* which of onUpdate and onComplete the caller passed
    route,          \* the route under execution
    lastStatusKey,  \* the status key of the latest onUpdate call
    update,         \* updatedRoute.steps of the latest updateRouteHook call
    updates,        \* the updateRouteHook calls so far
    events,         \* the onUpdate calls (message, step, totalSteps), in order
    routeResult,    \* how executeRoute settled
    completed,      \* the onComplete calls (txHashes), in order
    executeRouteCalls  \* the options object of each executeRoute call, in order

execVars ==
    <<execPc, options, route, lastStatusKey, update, updates, events,
      routeResult, completed, executeRouteCalls>>

VARIABLES
    bridgePc,    \* the bridge operation: "idle", "awaitWallet", "awaitBalances",
                 \* "awaitRoute", "executing", and where it ended: "insufficient",
                 \* "noRoute", "complete", "caught"
    flow,        \* who runs it: "api" (the route's POST) or "cli" (the script's main)
    candidates,  \* result.routes of getRoutes
    sse,         \* the events sent on the POST's stream, in order
    closes,      \* the controller.close() calls on the POST's stream
    console,     \* what the script wrote to the console, in order
    lastStatus,  \* the script's latest progress message
    exitCode     \* process.exit(code) of the script

bridgeVars == <<bridgePc, flow, candidates, sse, closes, console, lastStatus, exitCode>>

VARIABLES
    clients,     \* the dispatch objects built so far, each with what it closes over
    sentOn,      \* for each intent POST, the dispatch object it was requested on
    provided,    \* how the latest build of a dispatch object ended
    sdkConfig,   \* the wallet locator the provider registered by the latest
                 \* createConfig call closes over
    runs,        \* the callers that configured LI.FI for a route execution, each
                 \* with the wallet it configured and how far it is
    signedUnder  \* for each intent POST of an execution, the caller it belongs to

configVars == <<sdkConfig, runs, signedUnder>>

lifiVars == <<clients, sentOn, provided, configVars>>

VARIABLES
    wdPc,         \* the withdrawal: "idle", "awaitWallet", "awaitBalances",
                  \* "awaitLeg1", "awaitLeg2", and where it ended: "complete", "caught",
                  \* "aborted"
    destination,  \* the address the funds go to
    reads,        \* the balance reads issued, in order, with what each resolved
    snapshot,     \* usdcOnBase and ethOnArb as read
    legs,         \* the sendTransaction promise of each leg: "none", "skipped",
                  \* "inflight", "resolved", "rejected"
    txs           \* the receipts of the POST (txs.push), in order

withdrawVars == <<wdPc, destination, reads, snapshot, legs, txs>>

\* The state of the flows built on the wallet and the dispatch object.
VARIABLES
    cancelled,    \* the consumer cancelled the ReadableStream of the POST
    uncaught      \* what start(controller) threw past its own catch and finally

streamVars == <<cancelled, uncaught>>

VARIABLES
    calls,        \* the calls of getOrCreateWallet, in the order they began
    lookups,      \* the GET wallet requests sent, in order
    creates,      \* the POST wallet requests sent, in order
    wallets,      \* the backend's wallets: the address of each owner that has one
    env,          \* process.env.CROSSMINT_SERVER_API_KEY
    balanceCalls, \* the calls of getWalletBalances, in the order they began
    session,      \* the page's state: the userId and the address of the wallet it
                  \* displays, and the getOrCreateWallet call of a load under way
    served,       \* the POST the server is serving: its body and its
                  \* getOrCreateWallet call
    response      \* the JSON response the POST returned in place of a stream

uiVars == <<session, served, response>>

walletVars == <<calls, lookups, creates, wallets, env, balanceCalls, uiVars>>

extVars == <<execVars, bridgeVars, lifiVars, withdrawVars, streamVars, walletVars>>

vars == <<clientVars, adapterVars, extVars>>

\* The settled value of the promise submitTransaction returns.
Pending == [kind |-> "none", hash |-> Undefined, msg |-> "", txId |-> Undefined,
            data |-> NoData, n |-> 0]

Resolved(h) == [Pending EXCEPT !.kind = "resolved", !.hash = h]

\* new Error(`${msg} ...`): the message's fixed text and what it interpolates.
Rejected(msg, id, data, n) ==
    [Pending EXCEPT !.kind = "rejected", !.msg = msg, !.txId = id,
                    !.data = data, !.n = n]

\* A token of a route: its symbol and its decimals. Amounts of the
\* destination token are counted in units of 10^12 wei, so that the 18
\* decimals of ETH are 6 of these amounts.
NoToken == [symbol |-> Undefined, decimals |-> 0]

ETH == [symbol |-> "ETH", decimals |-> 6]

NoRoute == [id |-> Undefined, steps |-> 0, toAmountMin |-> 0, toToken |-> NoToken]

NoRouteResult ==
    [kind |-> "none", steps |-> <<>>,
     reason |-> [isError |-> FALSE, message |-> Undefined, value |-> Undefined],
     toAmount |-> 0 - 1]

InitExecute ==
    /\ execPc = "idle"
    /\ options = [onUpdate |-> FALSE, onComplete |-> FALSE]
    /\ route = NoRoute
    /\ lastStatusKey = <<>>
    /\ update = <<>>
    /\ updates = 0
    /\ events = <<>>
    /\ routeResult = NoRouteResult
    /\ completed = <<>>
    /\ executeRouteCalls = <<>>

\* The script has not exited.
NoExit == 0 - 1

InitBridge ==
    /\ bridgePc = "idle"
    /\ flow = Undefined
    /\ candidates = <<>>
    /\ sse = <<>>
    /\ closes = 0
    /\ console = <<>>
    /\ lastStatus = <<>>
    /\ exitCode = NoExit

NoneProvided == [kind |-> "none", client |-> 0, msg |-> ""]

InitLifi ==
    /\ clients = <<>>
    /\ sentOn = <<>>
    /\ provided = NoneProvided
    /\ sdkConfig = Undefined
    /\ runs = <<>>
    /\ signedUnder = <<>>

NoSnapshot == [usdcOnBase |-> 0 - 1, ethOnArb |-> 0 - 1]

InitWithdraw ==
    /\ wdPc = "idle"
    /\ destination = Undefined
    /\ reads = <<>>
    /\ snapshot = NoSnapshot
    /\ legs = [usdc |-> "none", eth |-> "none"]
    /\ txs = <<>>

InitStream ==
    /\ cancelled = FALSE
    /\ uncaught = <<>>

\* The owners a wallet can be provisioned for.
Owners ==
    {<<"userId", ":", "demo-user">>, <<"email", ":", "a@b.co">>,
     <<"userId", ":", "demo-user-1700000000000">>}

\* The page before it has loaded a wallet.
NoSession == [userId |-> Undefined, address |-> Undefined, loading |-> 0, uid |-> Undefined]

\* No POST of the page is being served.
NotServed == [kind |-> "none", destination |-> Undefined, locator |-> Undefined, call |-> 0]

\* The POST has returned no JSON response.
NoJson == [status |-> 0, error |-> Undefined]

InitWallet ==
    /\ calls = <<>>
    /\ lookups = <<>>
    /\ creates = <<>>
    /\ wallets = [o \in Owners |->
                    IF o = <<"userId", ":", "demo-user">> THEN "0xA0" ELSE Undefined]
    /\ env = Undefined
    /\ balanceCalls = <<>>
    /\ session = NoSession
    /\ served = NotServed
    /\ response = NoJson

InitExt ==
    InitExecute /\ InitBridge /\ InitLifi /\ InitWithdraw /\ InitStream /\ InitWallet

InitClient ==
    /\ clientPc = "idle"
    /\ sendCalls = 0
    /\ posts = <<>>
    /\ txId = Undefined
    /\ i = 0
    /\ gets = <<>>
    /\ lastPoll = NoResponse
    /\ allPending = TRUE
    /\ outcome = Pending

\* ----------------------------------------------------- submitTransaction

\* IntentBody with the value formatted by toString() in its default radix 10.
IntentBodyDecimal(params) ==
    [to |-> params.to,
     value |-> IF params.value # UndefinedBigInt
               THEN <<"0", "x">> \o toString(params.value, 10)
               ELSE <<"0", "x", "0">>,
     data |-> IF params.data = Undefined THEN "0x" ELSE params.data,
     chain |-> params.crossmintChain]

\* The JSON body of the intent POST.
IntentBody(params) ==
    [to |-> params.to,
     value |-> IF params.value # UndefinedBigInt
               THEN <<"0", "x">> \o toString(params.value, 16)
               ELSE <<"0", "x", "0">>,
     data |-> IF params.data = Undefined THEN "0x" ELSE params.data,
     chain |-> params.crossmintChain]

\* wallet.sendTransaction(params) = submitTransaction(apiKey, locator, params),
\* up to its first await: the POST is issued.
submitTransaction(locator, params) ==
    /\ clientPc = "idle"
    /\ sendCalls' = sendCalls + 1
    /\ posts' = Append(posts, [locator |-> locator, body |-> IntentBody(params)])
    /\ clientPc' = "posting"
    /\ UNCHANGED <<txId, i, gets, lastPoll, allPending, outcome>>

\* JS truthiness of a string-or-undefined value.
Truthy(s) == s # Undefined /\ s # ""

\* `if (!res.ok)` after the POST.
SubmissionFailed(res) == ~res.ok

\* MissingId with the check of body.id left out.
MissingIdUnchecked(res) == FALSE

\* `if (!txId)`
MissingId(res) == ~Truthy(res.id)

\* The POST settles: fetch rejecting and res.json() rejecting propagate,
\* !res.ok and a missing id throw, otherwise pollForHash is entered (and
\* sleeps before its first fetch).
SubmitResponse(res) ==
    /\ clientPc = "posting"
    /\ IF res.fetch = "rejects"
       THEN /\ outcome' = Rejected("fetch failed", Undefined, NoData, 0)
            /\ clientPc' = "rejected"
            /\ UNCHANGED txId
       ELSE IF ~res.json
       THEN /\ outcome' = Rejected("invalid json", Undefined, NoData, 0)
            /\ clientPc' = "rejected"
            /\ UNCHANGED txId
       ELSE IF SubmissionFailed(res)
       THEN /\ outcome' = Rejected("Transaction submission failed", Undefined,
                                   NoData, 0)
            /\ clientPc' = "rejected"
            /\ UNCHANGED txId
       ELSE IF MissingId(res)
       THEN /\ outcome' = Rejected("No transaction ID in response", Undefined,
                                   NoData, 0)
            /\ clientPc' = "rejected"
            /\ UNCHANGED txId
       ELSE /\ txId' = res.id
            /\ clientPc' = "polling"
            /\ UNCHANGED outcome
    /\ UNCHANGED <<sendCalls, posts, i, gets, lastPoll, allPending>>

\* ------------------------------------------------------------ pollForHash

\* LoopContinues with the bound off by one (i <= maxAttempts).
LoopContinuesInclusive(k) == k <= maxAttempts

\* The loop condition of `for (let i = 0; i < maxAttempts; i++)`.
LoopContinues(k) == k < maxAttempts

\* `if (!res.ok) continue`
IsTransient(res) == ~res.ok

\* IsSuccess with the status test left out: any record carrying a hash.
IsSuccessAnyStatus(data) == Truthy(data.txId)

\* `data.status === "success" && data.onChain?.txId`
IsSuccess(data) == data.status = "success" /\ Truthy(data.txId)

\* IsFailed comparing with a status string the backend never sends.
IsFailedTypo(data) == data.status = "failure"

\* `data.status === "failed"`
IsFailed(data) == data.status = "failed"

\* TimeoutError interpolating the wallet locator instead of the transaction id.
TimeoutErrorLocator(id) == Rejected("timed out", getLocator, NoData, maxAttempts)

\* `throw new Error(`Transaction ${txId} timed out after ${maxAttempts}s`)`
TimeoutError(id) == Rejected("timed out", id, NoData, maxAttempts)

\* `throw new Error(`Transaction failed on-chain (id=${txId}): ${JSON.stringify(data)}`)`
FailedError(id, data) == Rejected("Transaction failed on-chain", id, data, 0)

\* HashResult returning the backend's transaction identifier instead of the
\* on-chain hash.
HashResultTxId(data) == Resolved(txId)

\* `return { hash: data.onChain.txId as string }`
HashResult(data) == Resolved(data.txId)

\* The end of one iteration that neither returned nor threw: i++ and the loop
\* test; when the test fails the timeout is thrown in the same step.
NextIteration ==
    /\ i' = i + 1
    /\ IF LoopContinues(i + 1)
       THEN UNCHANGED <<clientPc, outcome>>
       ELSE /\ outcome' = TimeoutError(txId)
            /\ clientPc' = "rejected"

\* One iteration of the loop: the sleep ends, the status GET is issued and
\* settles with res.
Poll(res) ==
    /\ clientPc = "polling"
    /\ LoopContinues(i)
    /\ gets' = Append(gets, txId)
    /\ lastPoll' = res
    /\ allPending' = (allPending /\ res.fetch = "resolves" /\ res.ok /\ res.json
                      /\ res.data.status = "pending")
    /\ IF res.fetch = "rejects"
       THEN /\ outcome' = Rejected("fetch failed", txId, NoData, 0)
            /\ clientPc' = "rejected"
            /\ UNCHANGED i
       ELSE IF IsTransient(res)
       THEN NextIteration
       ELSE IF ~res.json
       THEN /\ outcome' = Rejected("invalid json", txId, NoData, 0)
            /\ clientPc' = "rejected"
            /\ UNCHANGED i
       ELSE IF IsSuccess(res.data)
       THEN /\ outcome' = HashResult(res.data)
            /\ clientPc' = "resolved"
            /\ UNCHANGED i
       ELSE IF IsFailed(res.data)
       THEN /\ outcome' = FailedError(txId, res.data)
            /\ clientPc' = "rejected"
            /\ UNCHANGED i
       ELSE NextIteration
    /\ UNCHANGED <<sendCalls, posts, txId>>

\* ------------------------------------------------- buildCrossmintViemClient

\* CHAIN_ID_TO_CROSSMINT with a default name for the ids it does not list.
CHAIN_ID_TO_CROSSMINT_Default(id) ==
    CASE id = 8453 -> "base"
      [] id = 42161 -> "arbitrum"
      [] id = 1 -> "ethereum"
      [] id = 137 -> "polygon"
      [] id = 10 -> "optimism"
      [] OTHER -> "ethereum"

\* const CHAIN_ID_TO_CROSSMINT: Record<number, string>
CHAIN_ID_TO_CROSSMINT(id) ==
    CASE id = 8453 -> "base"
      [] id = 42161 -> "arbitrum"
      [] id = 1 -> "ethereum"
      [] id = 137 -> "polygon"
      [] id = 10 -> "optimism"
      [] OTHER -> Undefined

\* Chain descriptors (viem Chain): id, name, rpcUrls.default.http.
Chains ==
    {[id |-> 8453, name |-> "Base", http |-> <<"https://mainnet.base.org">>],
     [id |-> 42161, name |-> "Arbitrum One",
      http |-> <<"https://arb1.arbitrum.io/rpc">>],
     [id |-> 137, name |-> "Polygon", http |-> <<>>],
     [id |-> 56, name |-> "BNB Smart Chain",
      http |-> <<"https://56.rpc.thirdweb.com">>]}

NoChain == [id |-> 0, name |-> Undefined, http |-> <<>>]

NoClient == [chain |-> NoChain, crossmintChain |-> Undefined]

\* JS undefined and truthiness for strings kept as character sequences.
UndefinedStr == <<"undefined">>

TruthyStr(s) == s # UndefinedStr /\ s # <<>>

NoRequest == [method |-> Undefined, params |-> <<>>]

\* The settled value of the promise request() returns.
NoResult == [kind |-> "none", value |-> Undefined, msg |-> "", detail |-> <<>>]

Returned(v) == [kind |-> "returned", value |-> v, msg |-> "", detail |-> <<>>]

\* An Error whose message is the text msg followed by the interpolated detail.
ThrewWith(msg, detail) ==
    [kind |-> "threw", value |-> Undefined, msg |-> msg, detail |-> detail]

Threw(msg) == ThrewWith(msg, <<>>)

InitAdapter ==
    /\ adapterPc = "unbuilt"
    /\ viemClient = NoClient
    /\ req = NoRequest
    /\ rpcCalls = <<>>
    /\ rpcReplies = <<>>
    /\ result = NoResult

\* buildCrossmintViemClient(wallet, chain): throws for an unmapped chain id,
\* otherwise returns the client whose transport closes over chain and
\* crossmintChain.
buildCrossmintViemClient(chain) ==
    /\ adapterPc = "unbuilt"
    /\ LET crossmintChain == CHAIN_ID_TO_CROSSMINT(chain.id)
       IN IF ~Truthy(crossmintChain)
          THEN /\ adapterPc' = "configError"
               /\ result' = Threw("is not mapped to a Crossmint chain name")
               /\ viemClient' = [chain |-> chain, crossmintChain |-> crossmintChain]
          ELSE /\ adapterPc' = "ready"
               /\ viemClient' = [chain |-> chain, crossmintChain |-> crossmintChain]
               /\ UNCHANGED result
    /\ UNCHANGED <<req, rpcCalls, rpcReplies>>
    /\ UNCHANGED clientVars

\* `const valueBigInt = tx.value ? BigInt(tx.value) : undefined`
valueBigInt(tx) == IF TruthyStr(tx.value) THEN BigInt(tx.value) ELSE UndefinedBigInt

\* The params object request() passes to wallet.sendTransaction.
SendTransactionParams(tx, crossmintChain) ==
    [to |-> tx.to, data |-> tx.data, value |-> valueBigInt(tx),
     crossmintChain |-> crossmintChain]

\* IsWrite intercepting the raw-transaction method instead.
IsWriteRaw(method) == method = "eth_sendRawTransaction"

\* `method === "eth_sendTransaction"`
IsWrite(method) == method = "eth_sendTransaction"

\* `chain.rpcUrls.default.http[0]`
rpcUrl(chain) == IF Len(chain.http) >= 1 THEN chain.http[1] ELSE Undefined

\* The JSON-RPC POST forwardToRpc issues (the id, Date.now(), is left out).
RpcCall(url, method, params) == [url |-> url, method |-> method, params |-> params]

\* request({method, params}) up to its first await. Write path: the value is
\* converted and wallet.sendTransaction is called, which issues the intent
\* POST. Read path: forwardToRpc issues the JSON-RPC POST, unless the chain
\* has no RPC URL.
Request(method, params) ==
    /\ adapterPc = "ready"
    /\ req' = [method |-> method, params |-> params]
    /\ IF IsWrite(method)
       THEN /\ submitTransaction(getLocator,
                   SendTransactionParams(params[1], viemClient.crossmintChain))
            /\ adapterPc' = "awaitSend"
            /\ UNCHANGED <<rpcCalls, result>>
       ELSE /\ IF ~Truthy(rpcUrl(viemClient.chain))
               THEN /\ adapterPc' = "threw"
                    /\ result' = Threw("No RPC URL for chain")
                    /\ UNCHANGED rpcCalls
               ELSE /\ rpcCalls' = Append(rpcCalls,
                           RpcCall(rpcUrl(viemClient.chain), method, params))
                    /\ adapterPc' = "awaitRpc"
                    /\ UNCHANGED result
            /\ UNCHANGED clientVars
    /\ UNCHANGED <<viemClient, rpcReplies>>

\* `const result = await wallet.sendTransaction(...); return result.hash`:
\* resumes once the sendTransaction promise has settled.
RequestReturn ==
    /\ adapterPc = "awaitSend"
    /\ clientPc \in {"resolved", "rejected"}
    /\ IF clientPc = "resolved"
       THEN /\ result' = Returned(outcome.hash)
            /\ adapterPc' = "returned"
       ELSE /\ result' = Threw(outcome.msg)
            /\ adapterPc' = "threw"
    /\ UNCHANGED <<viemClient, req, rpcCalls, rpcReplies>>
    /\ UNCHANGED clientVars

\* String(n) of a template literal: decimal digits, with a minus sign.
String(n) == IF n < 0 THEN <<"-">> \o toString(0 - n, 10) ELSE toString(n, 10)

\* A JSON-RPC error object, and a body that has none.
NoRpcError == [code |-> 0, message |-> Undefined]

RpcError(code, message) == [code |-> code, message |-> message]

\* What the JSON-RPC POST can come back with: the fetch itself, the HTTP
\* status, response.json(), json.error, json.result.
RpcReply(fetch, status, statusText, json, error, value) ==
    [fetch |-> fetch, ok |-> (status >= 200 /\ status <= 299), status |-> status,
     statusText |-> statusText, json |-> json, error |-> error, result |-> value]

RpcResponses ==
    {RpcReply("rejects", 0, "", "rejects", NoRpcError, Undefined),
     RpcReply("resolves", 500, "Internal Server Error", "resolves", NoRpcError,
              Undefined),
     RpcReply("resolves", 429, "Too Many Requests", "resolves",
              RpcError(0 - 32005, "limit exceeded"), Undefined),
     RpcReply("resolves", 200, "OK", "rejects", NoRpcError, Undefined),
     RpcReply("resolves", 200, "OK", "resolves", RpcError(3, "execution reverted"),
              "0x1"),
     RpcReply("resolves", 200, "OK", "resolves",
              RpcError(0 - 32000, "header not found"), Undefined),
     RpcReply("resolves", 200, "OK", "resolves", NoRpcError, Undefined),
     RpcReply("resolves", 200, "OK", "resolves", NoRpcError, "0x1"),
     RpcReply("resolves", 200, "OK", "resolves", NoRpcError, "0x2105")}

\* A failure whose message carries nothing of the response.
Unnamed(res) == Threw("RPC request failed")

\* `RPC request failed: ${response.status} ${response.statusText}`
StatusFailure(res) ==
    ThrewWith("RPC request failed", String(res.status) \o <<res.statusText>>)

\* `if (json.error)`
HasError(res) == Truthy(res.error.message)

\* `RPC error ${json.error.code}: ${json.error.message}`
RpcFailure(res) ==
    ThrewWith("RPC error", String(res.error.code) \o <<res.error.message>>)

\* forwardToRpc after its await: a non-success status and a json.error throw,
\* otherwise json.result is returned, and request() returns it. A rejected
\* fetch and a body that is not JSON reject the call as they are.
forwardToRpc(res) ==
    /\ adapterPc = "awaitRpc"
    /\ rpcReplies' = Append(rpcReplies, res)
    /\ IF res.fetch = "rejects"
       THEN /\ result' = Threw("fetch failed")
            /\ adapterPc' = "threw"
       ELSE IF ~res.ok
       THEN /\ result' = StatusFailure(res)
            /\ adapterPc' = "threw"
       ELSE IF res.json = "rejects"
       THEN /\ result' = Threw("Unexpected token")
            /\ adapterPc' = "threw"
       ELSE IF HasError(res)
       THEN /\ result' = RpcFailure(res)
            /\ adapterPc' = "threw"
       ELSE /\ result' = Returned(res.result)
            /\ adapterPc' = "returned"
    /\ UNCHANGED <<viemClient, req, rpcCalls>>
    /\ UNCHANGED clientVars

\* ------------------------------------------- Spec: a direct sendTransaction

\* The parameters a caller of wallet.sendTransaction passes.
SendParams ==
    [to : {"0xD1"}, data : {"0xa9059cbb"},
     value : {UndefinedBigInt, 240}, crossmintChain : {"base", "arbitrum"}]

SendTransaction ==
    /\ \E params \in SendParams : submitTransaction(getLocator, params)
    /\ UNCHANGED <<adapterVars, extVars>>

SubmitSettles ==
    /\ \E res \in SubmitResponses : SubmitResponse(res)
    /\ UNCHANGED <<adapterVars, extVars>>

PollTick ==
    /\ \E res \in PollResponses : Poll(res)
    /\ UNCHANGED <<adapterVars, extVars>>

Init == InitClient /\ InitAdapter /\ InitExt

Next == SendTransaction \/ SubmitSettles \/ PollTick

Spec == Init /\ [][Next]_vars

\* The event loop runs every timer and continuation that is due, and every
\* fetch settles.
FairSpec == Spec /\ WF_vars(Next)

\* ------------------------------- SpecAdapter: one request on a dispatch object

\* Character strings of length 1..n over the set cs.
RECURSIVE Strings(_, _)
Strings(cs, n) ==
    IF n = 0 THEN {}
    ELSE {<<c>> : c \in cs}
         \cup {s \o <<c>> : s \in Strings(cs, n - 1), c \in cs}

\* The value field of a transaction request: absent, empty, or a hex quantity
\* (leading zeros allowed).
TxValues ==
    {UndefinedStr, <<>>} \cup {<<"0", "x">> \o ds : ds \in Strings({"0", "f"}, MaxHexLen)}

\* The transaction object of an eth_sendTransaction request.
TxRequests ==
    [to : {"0xD1", "0xD2"}, data : {Undefined, "0xa9059cbb"}, value : TxValues,
     gas : {"0x5208"}]

ReadMethods == {"eth_call", "eth_chainId"}

ReadParams == {<<>>, <<"0xD1", "latest">>}

\* The backend as the adapter's requests meet it.
AdapterSubmitResponses == {res \in SubmitResponses : res.id \in {Undefined, "tx-1"}}

AdapterPollResponses ==
    {res \in PollResponses :
        /\ res.fetch = "resolves" /\ res.ok /\ res.json
        /\ \/ res.data.status = "pending" /\ res.data.txId = Undefined
           \/ res.data.status = "success" /\ res.data.txId \in Hashes
           \/ res.data.status = "failed" /\ res.data.error = "execution_reverted"}

BuildClient ==
    /\ \E chain \in Chains : buildCrossmintViemClient(chain)
    /\ UNCHANGED extVars

WriteRequest ==
    /\ \E tx \in TxRequests : Request("eth_sendTransaction", <<tx>>)
    /\ UNCHANGED extVars

ReadRequest ==
    /\ \E method \in ReadMethods, params \in ReadParams : Request(method, params)
    /\ UNCHANGED extVars

RpcSettles ==
    /\ \E res \in RpcResponses : forwardToRpc(res)
    /\ UNCHANGED extVars

AdapterSubmitSettles ==
    /\ \E res \in AdapterSubmitResponses : SubmitResponse(res)
    /\ UNCHANGED <<adapterVars, extVars>>

AdapterPollTick ==
    /\ \E res \in AdapterPollResponses : Poll(res)
    /\ UNCHANGED <<adapterVars, extVars>>

AdapterRequestReturn == RequestReturn /\ UNCHANGED extVars

NextAdapter ==
    \/ BuildClient
    \/ WriteRequest
    \/ ReadRequest
    \/ RpcSettles
    \/ AdapterSubmitSettles
    \/ AdapterPollTick
    \/ AdapterRequestReturn

SpecAdapter == Init /\ [][NextAdapter]_vars

\* ------------------------------------------------------ executeBridgeRoute

\* The number of updateRouteHook calls of one execution.
MaxUpdates == 3

\* The number of steps of a route.
RouteLengths == {1, 2}

\* The routes of a quote; route.toAmountMin is 0.0015 ETH.
Routes == [id : {"route-1"}, steps : RouteLengths, toAmountMin : {1500},
           toToken : {ETH}]

\* What an execution of route r can deliver: the quoted minimum, or more.
Received(r) == {r.toAmountMin, r.toAmountMin + 25}

\* The execution status LI.FI gives a step.
ExecutionStatuses == {"PENDING", "ACTION_REQUIRED", "DONE", "FAILED"}

\* s.execution of a step that has not started: undefined.
NoExecution == [present |-> FALSE, status |-> Undefined, process |-> <<>>]

Execution(status, process) ==
    [present |-> TRUE, status |-> status, process |-> process]

\* Array.prototype.join on strings, a string being the sequence of its parts.
RECURSIVE join(_, _)
join(xs, sep) ==
    IF xs = <<>> THEN <<>>
    ELSE IF Len(xs) = 1 THEN xs[1]
    ELSE xs[1] \o sep \o join(Tail(xs), sep)

\* Array.prototype.findIndex, given the positions (from 1) of the elements
\* that pass the test: the 0-based index of the first of them, or -1.
findIndex(hits) ==
    IF hits = {} THEN 0 - 1
    ELSE (CHOOSE k \in hits : \A h \in hits : k <= h) - 1

max(a, b) == IF a >= b THEN a ELSE b

\* steps.map((s) => s.execution?.status ?? "PENDING")
statuses(steps) ==
    [k \in 1..Len(steps) |->
        IF steps[k].execution.status # Undefined
        THEN steps[k].execution.status ELSE "PENDING"]

\* statusKey over s.execution?.status, without the "PENDING" default.
statusKeyRaw(steps) ==
    join([k \in 1..Len(steps) |-> <<steps[k].execution.status>>], <<",">>)

\* statuses.join(",")
statusKey(steps) ==
    join([k \in 1..Len(steps) |-> <<statuses(steps)[k]>>], <<",">>)

\* Suppressed that never holds.
SuppressedNever(key, last) == FALSE

\* if (statusKey === lastStatusKey) return;
Suppressed(key, last) == key = last

IsActive(s) ==
    \/ s.execution.status = "ACTION_REQUIRED"
    \/ s.execution.status = "PENDING"

\* steps.findIndex(...) + 1
currentStep(steps) ==
    findIndex({k \in 1..Len(steps) : IsActive(steps[k])}) + 1

\* statuses.map((s, i) => `Step ${i + 1}: ${s}`).join(" | ")
message(steps) ==
    join([k \in 1..Len(steps) |->
            <<"Step ">> \o toString(k, 10) \o <<": ", statuses(steps)[k]>>],
         <<" | ">>)

\* The arguments of one onUpdate call.
onUpdate(steps) ==
    [message |-> message(steps),
     step |-> max(currentStep(steps), 1),
     totalSteps |-> Len(steps)]

\* Execution options that take the signing mode from the caller's options.
CallerDecides(r, opts) ==
    [route |-> r.id, disableMessageSigning |-> opts.onComplete,
     updateRouteHook |-> TRUE]

\* The second argument of executeRoute: an object literal whose
\* disableMessageSigning is the constant true, and the step hook.
executionOptions(r, opts) ==
    [route |-> r.id, disableMessageSigning |-> TRUE, updateRouteHook |-> TRUE]

\* executeBridgeRoute(route, options) up to its await of executeRoute.
executeBridgeRoute(r, opts) ==
    /\ execPc = "idle"
    /\ execPc' = "executing"
    /\ route' = r
    /\ options' = opts
    /\ lastStatusKey' = <<>>
    /\ executeRouteCalls' = Append(executeRouteCalls, executionOptions(r, opts))
    /\ UNCHANGED <<update, updates, events, routeResult, completed>>

\* updateRouteHook(updatedRoute), which the engine calls while it executes.
updateRouteHook(steps) ==
    /\ execPc = "executing"
    /\ updates' = updates + 1
    /\ update' = steps
    /\ IF ~options.onUpdate
       THEN UNCHANGED <<lastStatusKey, events>>
       ELSE IF Suppressed(statusKey(steps), lastStatusKey)
       THEN UNCHANGED <<lastStatusKey, events>>
       ELSE /\ lastStatusKey' = statusKey(steps)
            /\ events' = Append(events, onUpdate(steps))
    /\ UNCHANGED <<execPc, options, route, routeResult, completed, executeRouteCalls>>

RECURSIVE flatMapProcess(_)
\* steps.flatMap((s) => s.execution?.process ?? [])
flatMapProcess(steps) ==
    IF steps = <<>> THEN <<>>
    ELSE steps[1].execution.process \o flatMapProcess(Tail(steps))

TruthyHash(p) == Truthy(p.txHash)

\* .flatMap(...).map((p) => p.txHash).filter((h) => !!h)
txHashes(steps) ==
    LET kept == SelectSeq(flatMapProcess(steps), TruthyHash)
    IN [k \in 1..Len(kept) |-> kept[k].txHash]

\* A value a promise rejects with: an Error, or any other value.
NoReason == [isError |-> FALSE, message |-> Undefined, value |-> Undefined]

Error(msg) == [isError |-> TRUE, message |-> msg, value |-> Undefined]

\* executeRoute resolves: onComplete is called when the caller passed it.
ExecuteResolves(steps) ==
    /\ execPc = "executing"
    /\ execPc' = "resolved"
    /\ \E amount \in Received(route) :
          routeResult' = [kind |-> "resolved", steps |-> steps, reason |-> NoReason,
                          toAmount |-> amount]
    /\ completed' = IF options.onComplete
                    THEN Append(completed, txHashes(steps)) ELSE completed
    /\ UNCHANGED <<options, route, lastStatusKey, update, updates, events,
                   executeRouteCalls>>

\* executeRoute rejects: the await throws the reason.
ExecuteRejects(reason) ==
    /\ execPc = "executing"
    /\ execPc' = "rejected"
    /\ routeResult' = [kind |-> "rejected", steps |-> <<>>, reason |-> reason,
                       toAmount |-> 0 - 1]
    /\ UNCHANGED <<options, route, lastStatusKey, update, updates, events, completed,
                   executeRouteCalls>>

\* ------------------ SpecExecute: the step updates of one executeBridgeRoute call

Options == [onUpdate : BOOLEAN, onComplete : BOOLEAN]

\* updatedRoute.steps as the engine reports them while it executes.
UpdateSteps(n) ==
    [1..n -> [execution : {NoExecution}
                 \cup {Execution(st, <<>>) : st \in ExecutionStatuses}]]

\* The process entries of a step of a resolved result.
ResultExecutions ==
    {NoExecution,
     Execution("DONE", <<[txHash |-> "0xaa", status |-> "DONE"]>>),
     Execution("DONE", <<[txHash |-> "0xbb", status |-> "PENDING"],
                         [txHash |-> Undefined, status |-> "DONE"],
                         [txHash |-> "0xcc", status |-> "DONE"]>>)}

ResultSteps(n) == [1..n -> [execution : ResultExecutions]]

RejectionValues ==
    {Error("Transaction failed on-chain"),
     [isError |-> FALSE, message |-> "User rejected the request", value |-> Undefined],
     [isError |-> FALSE, message |-> Undefined, value |-> "timeout"]}

ExecuteStart ==
    /\ \E r \in Routes, opts \in {o \in Options : ~o.onComplete} :
          executeBridgeRoute(r, opts)
    /\ UNCHANGED <<clientVars, adapterVars, bridgeVars, lifiVars, withdrawVars, streamVars, walletVars>>

UpdateTick ==
    /\ updates < MaxUpdates
    /\ \E steps \in UpdateSteps(route.steps) : updateRouteHook(steps)
    /\ UNCHANGED <<clientVars, adapterVars, bridgeVars, lifiVars, withdrawVars, streamVars, walletVars>>

NextExecute == ExecuteStart \/ UpdateTick

SpecExecute == Init /\ [][NextExecute]_vars

\* --------------------- SpecComplete: how one executeBridgeRoute call settles

CompleteStart ==
    /\ \E r \in Routes, opts \in Options : executeBridgeRoute(r, opts)
    /\ UNCHANGED <<clientVars, adapterVars, bridgeVars, lifiVars, withdrawVars, streamVars, walletVars>>

\* The engine's first step update.
FirstUpdate ==
    /\ updates = 0
    /\ \E steps \in UpdateSteps(route.steps) : updateRouteHook(steps)
    /\ UNCHANGED <<clientVars, adapterVars, bridgeVars, lifiVars, withdrawVars, streamVars, walletVars>>

ExecuteSettles ==
    /\ \/ \E steps \in ResultSteps(route.steps) : ExecuteResolves(steps)
       \/ \E reason \in RejectionValues : ExecuteRejects(reason)
    /\ UNCHANGED <<clientVars, adapterVars, bridgeVars, lifiVars, withdrawVars, streamVars, walletVars>>

NextComplete == CompleteStart \/ FirstUpdate \/ ExecuteSettles

SpecComplete == Init /\ [][NextComplete]_vars

\* A sendTransaction call has settled and its caller resumes: the locals of
\* the call are gone, the next call starts afresh.
sendTransactionReturn ==
    /\ clientPc \in {"resolved", "rejected"}
    /\ clientPc' = "idle"
    /\ txId' = Undefined
    /\ i' = 0
    /\ gets' = <<>>
    /\ lastPoll' = NoResponse
    /\ allPending' = TRUE
    /\ outcome' = Pending
    /\ UNCHANGED <<sendCalls, posts>>

\* ------------------------------------------- the bridge: route POST and script

\* The intents the engine submits for one bridge.
MaxSends == 1

\* The body of the POST request.
BridgeBody == [fromChain |-> 8453, toChain |-> 42161]

\* (p) => p.txHash && p.status === "DONE"
IsConfirmed(p) == Truthy(p.txHash) /\ p.status = "DONE"

\* The script's confirmedTxs.
confirmedTxs(steps) == SelectSeq(flatMapProcess(steps), IsConfirmed)

\* The POST's txHashes: the confirmed entries with their explorer URL.
transactions(steps) ==
    LET kept == SelectSeq(flatMapProcess(steps), IsConfirmed)
    IN [k \in 1..Len(kept) |->
            [txHash |-> kept[k].txHash,
             explorerUrl |-> <<BridgeBody.toChain, kept[k].txHash>>]]

\* send(event, data): one event on the stream.
SseEvent(event, step, status, msg, list) ==
    [event |-> event, step |-> step, status |-> status, message |-> msg,
     transactions |-> list]

StatusEvent(step, status, msg) == SseEvent("status", step, status, msg, <<>>)

ErrorEvent(msg) == SseEvent("error", 0, Undefined, msg, <<>>)

CompleteEvent(list) == SseEvent("complete", 0, "SUCCESS", <<>>, list)

\* Number.prototype.toFixed(6) of amount / 10^decimals, for decimals up to 6.
toFixed(amount, decimals) ==
    LET scaled == amount * (10 ^ (6 - decimals))
    IN toString(scaled \div 1000000, 10) \o <<".">>
         \o Tail(toString(1000000 + (scaled % 1000000), 10))

\* const toAmount = (Number(route.toAmountMin) /
\* Math.pow(10, route.toToken.decimals)).toFixed(6), computed before the
\* execution.
toAmount(r, res) == toFixed(r.toAmountMin, r.toToken.decimals)

\* send("complete", { status, transactions, toAmount, toToken, toChain })
BridgeCompleteEvent(list, amount, symbol) ==
    [event |-> "complete", step |-> 0, status |-> "SUCCESS", message |-> <<>>,
     transactions |-> list, toAmount |-> amount, toToken |-> symbol,
     toChain |-> BridgeBody.toChain]

\* The event a failure without detail would send.
UnknownErrorEvent == ErrorEvent(<<"Unknown error occurred">>)

\* send("error", { message: "No route found for this pair" })
NoRouteEvent == ErrorEvent(<<"No route found for this pair">>)

\* CatchMessage that reads .message of whatever was thrown.
CatchMessageOfAny(error) == <<error.message>>

\* error instanceof Error ? error.message : "Unknown error occurred"
CatchMessage(error) ==
    IF error.isError THEN <<error.message>> ELSE <<"Unknown error occurred">>

\* The script's main().catch: err.message ?? err
FatalMessage(err) ==
    IF err.message # Undefined THEN <<"Fatal error:", err.message>>
    ELSE <<"Fatal error:", err.value>>

ConsoleLine(stream, text) == [stream |-> stream, text |-> text]

\* The catch and finally blocks of the POST, and main().catch of the script.
Throws(error, sent) ==
    IF flow = "api"
    THEN /\ sse' = sent \o <<ErrorEvent(CatchMessage(error))>>
         /\ closes' = closes + 1
         /\ UNCHANGED <<console, exitCode>>
    ELSE /\ console' = Append(console, ConsoleLine("error", FatalMessage(error)))
         /\ exitCode' = 1
         /\ UNCHANGED <<sse, closes>>

\* The POST's start(controller), or the script's main(), up to
\* `await getOrCreateWallet()`.
BridgeStart(f) ==
    /\ bridgePc = "idle"
    /\ bridgePc' = "awaitWallet"
    /\ flow' = f
    /\ IF f = "api"
       THEN /\ sse' = <<StatusEvent(1, "PENDING", <<"Loading wallet...">>)>>
            /\ UNCHANGED console
       ELSE /\ console' = <<ConsoleLine("log", <<"Step 1/4: Initializing Crossmint wallet...">>)>>
            /\ UNCHANGED sse
    /\ UNCHANGED <<candidates, closes, lastStatus, exitCode>>
    /\ UNCHANGED <<clientVars, adapterVars, execVars, lifiVars, withdrawVars, streamVars, walletVars>>

\* getOrCreateWallet resolved: the POST configures LI.FI and asks for the
\* route; the script first reads the balances.
WalletResolves ==
    /\ bridgePc = "awaitWallet"
    /\ IF flow = "api"
       THEN /\ bridgePc' = "awaitRoute"
            /\ sse' = sse \o <<StatusEvent(1, "DONE", <<"Wallet loaded: ", "address">>),
                               StatusEvent(2, "PENDING", <<"Configuring LI.FI...">>),
                               StatusEvent(2, "DONE", <<"LI.FI configured">>),
                               StatusEvent(3, "PENDING", <<"Finding best route...">>)>>
            /\ UNCHANGED console
       ELSE /\ bridgePc' = "awaitBalances"
            /\ console' = console \o <<ConsoleLine("log", <<"Address: ", "address">>),
                                       ConsoleLine("log", <<"Step 2/4: Checking USDC balance on Base...">>)>>
            /\ UNCHANGED sse
    /\ UNCHANGED <<flow, candidates, closes, lastStatus, exitCode>>
    /\ UNCHANGED <<clientVars, adapterVars, execVars, lifiVars, withdrawVars, streamVars, walletVars>>

\* getWalletBalances resolved in the script: it exits when the wallet holds
\* less than 1 USDC on Base, and asks for the route otherwise.
BalancesResolve(sufficient) ==
    /\ bridgePc = "awaitBalances"
    /\ IF ~sufficient
       THEN /\ bridgePc' = "insufficient"
            /\ console' = Append(console, ConsoleLine("error", <<"Insufficient USDC balance on Base.">>))
            /\ exitCode' = 1
       ELSE /\ bridgePc' = "awaitRoute"
            /\ console' = Append(console, ConsoleLine("log", <<"Step 3/4: Fetching best route from LI.FI...">>))
            /\ UNCHANGED exitCode
    /\ UNCHANGED <<flow, candidates, sse, closes, lastStatus>>
    /\ UNCHANGED <<clientVars, adapterVars, execVars, lifiVars, withdrawVars, streamVars, walletVars>>

\* An await of the operation throws before the execution: getOrCreateWallet,
\* getWalletBalances or getRoutes rejected.
AwaitRejects(error) ==
    /\ bridgePc \in {"awaitWallet", "awaitBalances", "awaitRoute"}
    /\ bridgePc' = "caught"
    /\ Throws(error, sse)
    /\ UNCHANGED <<flow, candidates, lastStatus>>
    /\ UNCHANGED <<clientVars, adapterVars, execVars, lifiVars, withdrawVars, streamVars, walletVars>>

\* getBestRoute that falls back to a one-step route.
getBestRouteOrDefault(routes) ==
    IF Len(routes) = 0
    THEN [id |-> "route-1", steps |-> 1, toAmountMin |-> 1500, toToken |-> ETH]
    ELSE routes[1]

\* getBestRoute: null when getRoutes returned no route, else the first one.
getBestRoute(routes) == IF Len(routes) = 0 THEN NoRoute ELSE routes[1]

\* getRoutes resolved: without a route the operation ends, with one it calls
\* executeBridgeRoute.
RoutesResolve(routes) ==
    /\ bridgePc = "awaitRoute"
    /\ candidates' = routes
    /\ IF getBestRoute(routes) = NoRoute
       THEN /\ bridgePc' = "noRoute"
            /\ IF flow = "api"
               THEN /\ sse' = Append(sse, NoRouteEvent)
                    /\ closes' = closes + 2
                    /\ UNCHANGED <<console, exitCode>>
               ELSE /\ console' = Append(console, ConsoleLine("error",
                            <<"No route found. LI.FI may not support this pair right now.">>))
                    /\ exitCode' = 1
                    /\ UNCHANGED <<sse, closes>>
            /\ UNCHANGED execVars
       ELSE /\ bridgePc' = "executing"
            /\ IF flow = "api"
               THEN /\ sse' = sse \o <<StatusEvent(3, "DONE", <<"Route found: ", getBestRoute(routes).id>>),
                                       StatusEvent(4, "PENDING", <<"Executing bridge (this may take a few minutes)...">>)>>
                    /\ UNCHANGED console
               ELSE /\ console' = console \o <<ConsoleLine("log", <<"Route found:", getBestRoute(routes).id>>),
                                               ConsoleLine("log", <<"Step 4/4: Executing bridge via Crossmint wallet...">>)>>
                    /\ UNCHANGED sse
            /\ executeBridgeRoute(getBestRoute(routes),
                                  [onUpdate |-> TRUE, onComplete |-> FALSE])
            /\ UNCHANGED <<closes, exitCode>>
    /\ UNCHANGED <<flow, lastStatus>>
    /\ UNCHANGED <<clientVars, adapterVars, lifiVars, withdrawVars, streamVars, walletVars>>

\* The engine's step update during a bridge: the POST's onUpdate sends a
\* status event, the script's writes the message when it changed.
BridgeUpdate(steps) ==
    /\ bridgePc = "executing"
    /\ updateRouteHook(steps)
    /\ IF events' = events
       THEN UNCHANGED <<sse, console, lastStatus>>
       ELSE LET call == events'[Len(events')]
            IN IF flow = "api"
               THEN /\ sse' = Append(sse, StatusEvent(4, "PENDING", call.message))
                    /\ UNCHANGED <<console, lastStatus>>
               ELSE IF call.message # lastStatus
               THEN /\ lastStatus' = call.message
                    /\ console' = Append(console, ConsoleLine("stdout",
                            toString(call.step, 10) \o <<"/">>
                                \o toString(call.totalSteps, 10) \o call.message))
                    /\ UNCHANGED sse
               ELSE UNCHANGED <<sse, console, lastStatus>>
    /\ UNCHANGED <<bridgePc, flow, candidates, closes, exitCode>>
    /\ UNCHANGED <<clientVars, adapterVars, lifiVars, withdrawVars, streamVars, walletVars>>

\* The engine submits an intent through the dispatch object it got from
\* getWalletClient.
EngineSend(params) ==
    /\ bridgePc = "executing"
    /\ execPc = "executing"
    /\ sendCalls < MaxSends
    /\ submitTransaction(getLocator, params)
    /\ UNCHANGED <<adapterVars, extVars>>

\* The engine's request settled: the locals of that sendTransaction call are
\* gone.
EngineSendReturn ==
    /\ bridgePc = "executing"
    /\ sendTransactionReturn
    /\ UNCHANGED <<adapterVars, extVars>>

\* executeBridgeRoute resolved: the POST sends the complete event and closes
\* the stream, the script prints the receipts.
BridgeResolves(steps) ==
    /\ bridgePc = "executing"
    /\ clientPc = "idle"
    /\ ExecuteResolves(steps)
    /\ bridgePc' = "complete"
    /\ IF flow = "api"
       THEN /\ sse' = Append(sse,
                    BridgeCompleteEvent(transactions(steps),
                                        toAmount(route, routeResult'),
                                        route.toToken.symbol))
            /\ closes' = closes + 1
            /\ UNCHANGED console
       ELSE /\ console' = console
                \o <<ConsoleLine("log", <<"Bridge complete!">>)>>
                \o [k \in 1..Len(confirmedTxs(steps)) |->
                        ConsoleLine("receipt",
                            toString(k, 10) \o <<". ", confirmedTxs(steps)[k].txHash>>)]
            /\ UNCHANGED <<sse, closes>>
    /\ UNCHANGED <<flow, candidates, lastStatus, exitCode>>
    /\ UNCHANGED <<clientVars, adapterVars, lifiVars, withdrawVars, streamVars, walletVars>>

\* executeBridgeRoute rejected.
BridgeRejects(reason) ==
    /\ bridgePc = "executing"
    /\ clientPc = "idle"
    /\ ExecuteRejects(reason)
    /\ bridgePc' = "caught"
    /\ Throws(reason, sse)
    /\ UNCHANGED <<flow, candidates, lastStatus>>
    /\ UNCHANGED <<clientVars, adapterVars, lifiVars, withdrawVars, streamVars, walletVars>>

\* ---------------------------------------------- SpecBridge: one bridge operation

Flows == {"api", "cli"}

\* result.routes of getRoutes.
CandidateLists ==
    {<<>>} \cup {<<r>> : r \in Routes}
        \cup {<<r, q>> : r \in {x \in Routes : x.steps = 2}, q \in {x \in Routes : x.steps = 1}}

EngineParams ==
    [to : {"0xD1"}, data : {"0xa9059cbb"}, value : {UndefinedBigInt},
     crossmintChain : {"base"}]

BridgeSubmitResponses == {res \in AdapterSubmitResponses : res.fetch = "resolves" /\ res.json}

BridgePollResponses ==
    {res \in AdapterPollResponses :
        res.data.status = "success" => res.data.txId = "0xaa"}

BridgeBegins == \E f \in Flows : BridgeStart(f)

BalancesSettle == \E sufficient \in BOOLEAN : BalancesResolve(sufficient)

BridgeAwaitRejects == \E error \in RejectionValues : AwaitRejects(error)

RoutesSettle == \E routes \in CandidateLists : RoutesResolve(routes)

BridgeFirstUpdate ==
    /\ updates = 0
    /\ \E steps \in UpdateSteps(route.steps) : BridgeUpdate(steps)

EngineSends == \E params \in EngineParams : EngineSend(params)

BridgeSubmitSettles ==
    /\ bridgePc = "executing"
    /\ \E res \in BridgeSubmitResponses : SubmitResponse(res)
    /\ UNCHANGED <<adapterVars, extVars>>

BridgePollTick ==
    /\ bridgePc = "executing"
    /\ \E res \in BridgePollResponses : Poll(res)
    /\ UNCHANGED <<adapterVars, extVars>>

BridgeSettles ==
    \/ \E steps \in ResultSteps(route.steps) : BridgeResolves(steps)
    \/ \E reason \in RejectionValues : BridgeRejects(reason)

NextBridge ==
    \/ BridgeBegins
    \/ WalletResolves
    \/ BalancesSettle
    \/ BridgeAwaitRejects
    \/ RoutesSettle
    \/ BridgeFirstUpdate
    \/ EngineSends
    \/ BridgeSubmitSettles
    \/ BridgePollTick
    \/ EngineSendReturn
    \/ BridgeSettles

SpecBridge == Init /\ [][NextBridge]_vars

\* ------------------------------------- configureLifi: the dispatch objects

\* The dispatch objects one engine holds.
MaxClients == 2

\* The broadcast requests the engine issues on them.
MaxRequests == 3

\* const SUPPORTED_CHAINS: Chain[] = [base, arbitrum]
SUPPORTED_CHAINS == {c \in Chains : c.id \in {8453, 42161}}

base == CHOOSE c \in Chains : c.id = 8453

\* SUPPORTED_CHAINS.find((c) => c.id === chainId)
find(chainId) ==
    IF \E c \in SUPPORTED_CHAINS : c.id = chainId
    THEN CHOOSE c \in SUPPORTED_CHAINS : c.id = chainId
    ELSE NoChain

\* buildCrossmintViemClient(wallet, chain) for one more dispatch object: it
\* throws for an unmapped chain id, and returns a new object otherwise.
BuildDispatchObject(chain) ==
    LET crossmintChain == CHAIN_ID_TO_CROSSMINT(chain.id)
    IN IF ~Truthy(crossmintChain)
       THEN /\ provided' = [kind |-> "threw", client |-> 0,
                            msg |-> "is not mapped to a Crossmint chain name"]
            /\ UNCHANGED clients
       ELSE /\ clients' = Append(clients,
                    [chain |-> chain, crossmintChain |-> crossmintChain])
            /\ provided' = [kind |-> "client", client |-> Len(clients) + 1, msg |-> ""]

\* getWalletClient: async () => buildCrossmintViemClient(wallet, base)
getWalletClient ==
    /\ BuildDispatchObject(base)
    /\ UNCHANGED sentOn

\* switchChain: async (chainId) => ...
switchChain(chainId) ==
    /\ IF find(chainId) = NoChain
       THEN /\ provided' = [kind |-> "threw", client |-> 0, msg |-> "not supported"]
            /\ UNCHANGED clients
       ELSE BuildDispatchObject(find(chainId))
    /\ UNCHANGED sentOn

\* A closure shared by every dispatch object, holding what the latest one
\* was built with.
closureLatest(cs, k) == cs[Len(cs)]

\* What the request function of dispatch object k closes over: the chain and
\* crossmintChain of its own buildCrossmintViemClient call.
closure(cs, k) == cs[k]

\* request({method: "eth_sendTransaction", params: [tx]}) on dispatch object
\* k, up to its await of wallet.sendTransaction.
ClientRequest(k, tx) ==
    /\ submitTransaction(getLocator,
            SendTransactionParams(tx, closure(clients, k).crossmintChain))
    /\ sentOn' = Append(sentOn, k)
    /\ UNCHANGED <<clients, provided>>

\* -------------------- SpecLifi: one engine, several dispatch objects, requests

\* The chain ids the engine asks switchChain for.
SwitchChainIds == {8453, 42161, 10, 56}

\* The chains a caller builds a dispatch object for directly.
DirectChains == {c \in Chains : c.id \in {42161, 56}}

LifiTx == [to |-> "0xD1", data |-> "0xa9059cbb", value |-> UndefinedStr, gas |-> "0x5208"]

GetWalletClient ==
    /\ Len(clients) < MaxClients
    /\ getWalletClient
    /\ UNCHANGED <<clientVars, adapterVars, execVars, bridgeVars, withdrawVars, streamVars, walletVars, configVars>>

SwitchChain ==
    /\ Len(clients) < MaxClients
    /\ \E chainId \in SwitchChainIds : switchChain(chainId)
    /\ UNCHANGED <<clientVars, adapterVars, execVars, bridgeVars, withdrawVars, streamVars, walletVars, configVars>>

DirectBuild ==
    /\ Len(clients) < MaxClients
    /\ \E chain \in DirectChains : BuildDispatchObject(chain)
    /\ UNCHANGED sentOn
    /\ UNCHANGED <<clientVars, adapterVars, execVars, bridgeVars, withdrawVars, streamVars, walletVars, configVars>>

LifiRequest ==
    /\ sendCalls < MaxRequests
    /\ \E k \in 1..Len(clients) : ClientRequest(k, LifiTx)
    /\ UNCHANGED <<adapterVars, execVars, bridgeVars, withdrawVars, streamVars, walletVars, configVars>>

LifiSubmitSettles ==
    /\ sentOn # <<>>
    /\ \E res \in BridgeSubmitResponses : SubmitResponse(res)
    /\ UNCHANGED <<adapterVars, extVars>>

LifiPollTick ==
    /\ sentOn # <<>>
    /\ \E res \in BridgePollResponses : Poll(res)
    /\ UNCHANGED <<adapterVars, extVars>>

LifiRequestReturn ==
    /\ sentOn # <<>>
    /\ sendTransactionReturn
    /\ UNCHANGED <<adapterVars, extVars>>

NextLifi ==
    \/ GetWalletClient
    \/ SwitchChain
    \/ DirectBuild
    \/ LifiRequest
    \/ LifiSubmitSettles
    \/ LifiPollTick
    \/ LifiRequestReturn

SpecLifi == Init /\ [][NextLifi]_vars

\* --------------------------------------- the withdrawal: route POST and script

\* const gasReserve = 200_000_000_000_000n, amounts of ETH being counted in
\* units of 10^14 wei: formatUnits(v, 18) of the source is formatUnits(v, 4)
\* of these amounts.
gasReserve == 2

\* TOKENS.USDC_BASE
USDC_BASE == "0x833589fCD6eDb6E08f4c7C32D4f71b54bdA02913"

\* formatUnits(value, decimals): the decimal string of value / 10^decimals,
\* without trailing zeros.
RECURSIVE fraction(_, _)
fraction(frac, digits) ==
    IF frac = 0 THEN <<>>
    ELSE toString(frac \div (10 ^ (digits - 1)), 10)
            \o fraction(frac % (10 ^ (digits - 1)), digits - 1)

formatUnits(value, decimals) ==
    LET negative == value < 0
        display == IF negative THEN 0 - value ELSE value
        sign == IF negative THEN <<"-">> ELSE <<>>
    IN IF display % (10 ^ decimals) = 0
       THEN sign \o toString(display \div (10 ^ decimals), 10)
       ELSE sign \o toString(display \div (10 ^ decimals), 10) \o <<".">>
                \o fraction(display % (10 ^ decimals), decimals)

\* The call data of approve(spender, amount), for the same arguments.
encodeApprove(to, amount) ==
    CASE to = "0xD1" /\ amount = 5000000 -> "0x095ea7b3 00..D1 00..4c4b40"
      [] to = "0xD1" /\ amount = 1 -> "0x095ea7b3 00..D1 00..01"

\* encodeFunctionData({abi: erc20Abi, functionName: "transfer", args: [to, amount]}):
\* the selector, the address and the amount as 32-byte words, for the
\* destinations and amounts of the model.
encodeFunctionData(to, amount) ==
    CASE to = "0xD1" /\ amount = 5000000 -> "0xa9059cbb 00..D1 00..4c4b40"
      [] to = "0xD1" /\ amount = 1 -> "0xa9059cbb 00..D1 00..01"
      [] OTHER -> "0xa9059cbb .. .."

\* wallet.sendTransaction(params) by a caller whose previous call, if any,
\* has been left behind: a new call with its own locals, up to the POST.
wallet_sendTransaction(locator, params) ==
    /\ sendCalls' = sendCalls + 1
    /\ posts' = Append(posts, [locator |-> locator, body |-> IntentBody(params)])
    /\ clientPc' = "posting"
    /\ txId' = Undefined
    /\ i' = 0
    /\ gets' = <<>>
    /\ lastPoll' = NoResponse
    /\ allPending' = TRUE
    /\ outcome' = Pending

\* The state of the promise a sendTransaction call returned.
PromiseState(pc) ==
    IF pc = "resolved" THEN "resolved"
    ELSE IF pc = "rejected" THEN "rejected"
    ELSE "inflight"

\* A caller that goes on once the POST is out, without awaiting the promise.
NotAwaited(pc) == pc \in {"polling", "resolved", "rejected"}

\* `await wallet.sendTransaction(...)`: the caller resumes once the promise
\* has settled.
Awaited(pc) == pc \in {"resolved", "rejected"}

\* A receipt that names the chain and the amount and carries no hash.
ReceiptWithoutHash(hash, chainId, label) ==
    [txHash |-> Undefined, explorerUrl |-> <<chainId, Undefined>>, label |-> label]

\* txs.push({txHash: hash, explorerUrl: getExplorerTxUrl(chainId, hash), label})
Receipt(hash, chainId, label) ==
    [txHash |-> hash, explorerUrl |-> <<chainId, hash>>, label |-> label]

\* A withdrawal of the whole balance, keeping no reserve.
ethSendAll(ethOnArb) == ethOnArb

\* ethOnArb > gasReserve ? ethOnArb - gasReserve : 0n
ethSendAmount(ethOnArb) ==
    IF ethOnArb > gasReserve THEN ethOnArb - gasReserve ELSE 0

\* The script's const sendAmount = ethOnArb > gasReserve ? ethOnArb -
\* gasReserve : 0n, with its own gasReserve of the same value.
sendAmount(ethOnArb) ==
    IF ethOnArb > gasReserve THEN ethOnArb - gasReserve ELSE 0

\* The amount the ETH leg sends, 0 when it sends nothing. The script
\* computes its sendAmount under `if (ethOnArb > 0n)` and sends under
\* `if (sendAmount > 0n)`; the POST sends under `if (ethSendAmount > 0n)`.
EthToSend(f, ethOnArb) ==
    IF f = "cli"
    THEN IF ethOnArb > 0 THEN sendAmount(ethOnArb) ELSE 0
    ELSE ethSendAmount(ethOnArb)

\* The script's anyWithdrawal flag, given the legs so far.
anyWithdrawal(lg) ==
    lg.usdc \notin {"none", "skipped"} \/ lg.eth \notin {"none", "skipped"}

\* A catch that reports every failure with the same text.
WithdrawThrowsUnknown(error, lg) ==
    /\ wdPc' = "caught"
    /\ legs' = lg
    /\ IF flow = "api"
       THEN /\ sse' = Append(sse, ErrorEvent(<<"Unknown error">>))
            /\ closes' = closes + 1
            /\ UNCHANGED <<console, exitCode>>
       ELSE /\ console' = Append(console, ConsoleLine("error", <<"Error:", "Unknown error">>))
            /\ exitCode' = 1
            /\ UNCHANGED <<sse, closes>>
    /\ UNCHANGED <<destination, reads, snapshot, txs>>

\* The catch and finally blocks of the POST, and main().catch of the script.
WithdrawThrows(error, lg) ==
    /\ wdPc' = "caught"
    /\ legs' = lg
    /\ IF flow = "api"
       THEN /\ sse' = Append(sse, ErrorEvent(
                    IF error.isError THEN <<error.message>> ELSE <<"Unknown error">>))
            /\ closes' = closes + 1
            /\ UNCHANGED <<console, exitCode>>
       ELSE /\ console' = Append(console, ConsoleLine("error",
                    IF error.message # Undefined THEN <<"Error:", error.message>>
                    ELSE <<"Error:", error.value>>))
            /\ exitCode' = 1
            /\ UNCHANGED <<sse, closes>>
    /\ UNCHANGED <<destination, reads, snapshot, txs>>

\* An end of the operation that reports a success whatever was sent.
WithdrawEndsInSuccess(sent, out, receipts, lg) ==
    /\ wdPc' = "complete"
    /\ legs' = lg
    /\ txs' = receipts
    /\ IF flow = "api"
       THEN /\ sse' = Append(sent, SseEvent("complete", 0, "SUCCESS", <<>>, receipts))
            /\ closes' = closes + 1
            /\ UNCHANGED <<console, exitCode>>
       ELSE /\ console' = Append(out, ConsoleLine("log",
                    <<"Done. Check your destination wallet:", destination>>))
            /\ UNCHANGED <<sse, closes, exitCode>>

\* The end of the try block of the POST, and of main().
WithdrawEnds(sent, out, receipts, lg) ==
    /\ wdPc' = "complete"
    /\ legs' = lg
    /\ txs' = receipts
    /\ IF flow = "api"
       THEN /\ sse' = Append(sent,
                    IF Len(receipts) = 0
                    THEN SseEvent("complete", 0, "EMPTY",
                            <<"Nothing to withdraw - all balances are zero.">>, <<>>)
                    ELSE SseEvent("complete", 0, "SUCCESS", <<>>, receipts))
            /\ closes' = closes + 1
            /\ UNCHANGED <<console, exitCode>>
       ELSE /\ console' = Append(out, ConsoleLine("log",
                    IF ~anyWithdrawal(lg)
                    THEN <<"Nothing to withdraw - all balances are zero.">>
                    ELSE <<"Done. Check your destination wallet:", destination>>))
            /\ UNCHANGED <<sse, closes, exitCode>>

\* wallet.locator of the wallet the operation got from getOrCreateWallet:
\* that of the call of the POST that is served, the default otherwise.
WalletLocator ==
    IF served.call # 0 THEN calls[served.call].locator ELSE getLocator

\* The ETH leg, from the gas reserve to the await of its sendTransaction, or
\* to the end of the operation when the leg is skipped.
WithdrawEth(snap, sent, out, receipts, lg) ==
    IF EthToSend(flow, snap.ethOnArb) > 0
    THEN /\ wallet_sendTransaction(WalletLocator,
                [to |-> destination, data |-> Undefined,
                 value |-> EthToSend(flow, snap.ethOnArb),
                 crossmintChain |-> "arbitrum"])
         /\ wdPc' = "awaitLeg2"
         /\ legs' = [lg EXCEPT !.eth = "inflight"]
         /\ txs' = receipts
         /\ IF flow = "api"
            THEN /\ sse' = Append(sent, StatusEvent(0, "PENDING",
                        <<"Withdrawing ">> \o formatUnits(ethSendAmount(snap.ethOnArb), 4)
                            \o <<" ETH from Arbitrum... (0.0002 ETH reserved for gas)">>))
                 /\ UNCHANGED console
            ELSE /\ console' = Append(out, ConsoleLine("log",
                        <<"Withdrawing ">> \o formatUnits(sendAmount(snap.ethOnArb), 4)
                            \o <<" ETH from Arbitrum...">>))
                 /\ UNCHANGED sse
         /\ UNCHANGED <<closes, exitCode>>
    ELSE /\ WithdrawEnds(sent,
                IF flow = "cli" /\ snap.ethOnArb > 0
                THEN Append(out, ConsoleLine("log",
                        <<"ETH on Arbitrum (">> \o formatUnits(snap.ethOnArb, 4)
                            \o <<") is below the 0.0002 ETH gas reserve - skipping.">>))
                ELSE out,
                receipts, [lg EXCEPT !.eth = "skipped"])
         /\ UNCHANGED clientVars

\* A balance read that has been issued and has not resolved yet.
BalanceRead(name) == [name |-> name, value |-> UndefinedBigInt]

\* What the read of the named balance resolved.
valueOf(rs, name) == rs[CHOOSE k \in 1..Len(rs) : rs[k].name = name].value

\* A combinator that resolves with the first read that resolves.
PromiseAny(rs) == \E k \in 1..Len(rs) : rs[k].value # UndefinedBigInt

\* Promise.all([...]) resolves once every read has resolved.
PromiseAll(rs) == \A k \in 1..Len(rs) : rs[k].value # UndefinedBigInt

\* The POST's start(controller), or the script's main(), up to
\* `await getOrCreateWallet(...)`.
WithdrawStart(f, dest) ==
    /\ wdPc = "idle"
    /\ bridgePc = "idle"
    /\ wdPc' = "awaitWallet"
    /\ flow' = f
    /\ destination' = dest
    /\ IF f = "api"
       THEN /\ sse' = <<StatusEvent(0, "PENDING", <<"Loading wallet...">>)>>
            /\ UNCHANGED console
       ELSE /\ console' = <<ConsoleLine("log", <<"Destination: ", dest>>)>>
            /\ UNCHANGED sse
    /\ UNCHANGED <<reads, snapshot, legs, txs>>
    /\ UNCHANGED <<bridgePc, candidates, closes, lastStatus, exitCode>>
    /\ UNCHANGED <<clientVars, adapterVars, execVars, lifiVars, streamVars, walletVars>>

\* getOrCreateWallet resolved: the balance reads are issued together.
WithdrawWalletResolves ==
    /\ wdPc = "awaitWallet"
    /\ wdPc' = "awaitBalances"
    /\ IF flow = "api"
       THEN /\ reads' = <<BalanceRead("usdcOnBase"), BalanceRead("ethOnArb")>>
            /\ sse' = sse \o <<StatusEvent(0, "DONE", <<"Wallet: ", "address">>),
                               StatusEvent(0, "PENDING", <<"Reading on-chain balances...">>)>>
            /\ UNCHANGED console
       ELSE /\ reads' = <<BalanceRead("usdcOnBase"), BalanceRead("ethOnBase"),
                           BalanceRead("ethOnArb")>>
            /\ console' = Append(console, ConsoleLine("log", <<"Smart wallet: ", "address">>))
            /\ UNCHANGED sse
    /\ UNCHANGED <<destination, snapshot, legs, txs>>
    /\ UNCHANGED <<bridgePc, flow, candidates, closes, lastStatus, exitCode>>
    /\ UNCHANGED <<clientVars, adapterVars, execVars, lifiVars, streamVars, walletVars>>

\* getOrCreateWallet or a balance read rejected.
WithdrawAwaitRejects(error) ==
    /\ wdPc \in {"awaitWallet", "awaitBalances"}
    /\ WithdrawThrows(error, legs)
    /\ UNCHANGED <<bridgePc, flow, candidates, lastStatus>>
    /\ UNCHANGED <<clientVars, adapterVars, execVars, lifiVars, streamVars, walletVars>>

\* One of the balance reads resolves.
ReadResolves(k, value) ==
    /\ wdPc = "awaitBalances"
    /\ k \in 1..Len(reads)
    /\ reads[k].value = UndefinedBigInt
    /\ reads' = [reads EXCEPT ![k].value = value]
    /\ UNCHANGED <<wdPc, destination, snapshot, legs, txs>>
    /\ UNCHANGED <<clientVars, adapterVars, execVars, bridgeVars, lifiVars, streamVars, walletVars>>

\* Promise.all of the balance reads resolved: the USDC leg runs up to the
\* await of its sendTransaction, or is skipped and the ETH leg follows.
BalancesRead(usdcOnBase, ethOnArb) ==
    /\ wdPc = "awaitBalances"
    /\ snapshot' = [usdcOnBase |-> usdcOnBase, ethOnArb |-> ethOnArb]
    /\ LET sent == IF flow = "api"
                   THEN Append(sse, StatusEvent(0, "DONE",
                            <<"USDC on Base: ">> \o formatUnits(usdcOnBase, 6)
                                \o <<" | ETH on Arbitrum: ">> \o formatUnits(ethOnArb, 4)))
                   ELSE sse
           out == IF flow = "cli"
                  THEN Append(console, ConsoleLine("log",
                            <<"Balances: ">> \o formatUnits(usdcOnBase, 6)
                                \o <<" USDC, ">> \o formatUnits(ethOnArb, 4) \o <<" ETH">>))
                  ELSE console
       IN IF usdcOnBase > 0
          THEN /\ wallet_sendTransaction(WalletLocator,
                      [to |-> USDC_BASE,
                       data |-> encodeFunctionData(destination, usdcOnBase),
                       value |-> 0, crossmintChain |-> "base"])
               /\ wdPc' = "awaitLeg1"
               /\ legs' = [legs EXCEPT !.usdc = "inflight"]
               /\ IF flow = "api"
                  THEN /\ sse' = Append(sent, StatusEvent(0, "PENDING",
                              <<"Withdrawing ">> \o formatUnits(usdcOnBase, 6)
                                  \o <<" USDC from Base...">>))
                       /\ UNCHANGED console
                  ELSE /\ console' = Append(out, ConsoleLine("log",
                              <<"Withdrawing ">> \o formatUnits(usdcOnBase, 6)
                                  \o <<" USDC from Base...">>))
                       /\ UNCHANGED sse
               /\ UNCHANGED <<txs, closes, exitCode>>
          ELSE WithdrawEth(snapshot', sent, out, txs, [legs EXCEPT !.usdc = "skipped"])
    /\ UNCHANGED <<destination, reads>>
    /\ UNCHANGED <<bridgePc, flow, candidates, lastStatus>>
    /\ UNCHANGED <<adapterVars, execVars, lifiVars, streamVars, walletVars>>

\* The await of the USDC leg is over: a rejection is caught, a hash is
\* reported and the ETH leg follows.
Leg1Returns ==
    /\ wdPc = "awaitLeg1"
    /\ Awaited(clientPc)
    /\ IF clientPc = "rejected"
       THEN /\ WithdrawThrows(Error(outcome.msg), [legs EXCEPT !.usdc = "rejected"])
            /\ UNCHANGED clientVars
       ELSE WithdrawEth(snapshot,
                IF flow = "api"
                THEN Append(sse, StatusEvent(0, "DONE", <<"USDC sent | ", outcome.hash>>))
                ELSE sse,
                IF flow = "cli"
                THEN Append(console, ConsoleLine("receipt", <<CHAIN_ID_TO_CROSSMINT(8453), outcome.hash>>))
                ELSE console,
                IF flow = "api"
                THEN Append(txs, Receipt(outcome.hash, 8453,
                                formatUnits(snapshot.usdcOnBase, 6) \o <<" USDC (Base)">>))
                ELSE txs,
                [legs EXCEPT !.usdc = PromiseState(clientPc)])
    /\ UNCHANGED <<destination, reads, snapshot>>
    /\ UNCHANGED <<bridgePc, flow, candidates, lastStatus>>
    /\ UNCHANGED <<adapterVars, execVars, lifiVars, streamVars, walletVars>>

\* The await of the ETH leg is over: a rejection is caught, a hash is
\* reported and the operation ends.
Leg2Returns ==
    /\ wdPc = "awaitLeg2"
    /\ Awaited(clientPc)
    /\ IF clientPc = "rejected"
       THEN WithdrawThrows(Error(outcome.msg), [legs EXCEPT !.eth = "rejected"])
       ELSE WithdrawEnds(
                IF flow = "api"
                THEN Append(sse, StatusEvent(0, "DONE", <<"ETH sent | ", outcome.hash>>))
                ELSE sse,
                IF flow = "cli"
                THEN Append(console, ConsoleLine("receipt", <<CHAIN_ID_TO_CROSSMINT(42161), outcome.hash>>))
                ELSE console,
                IF flow = "api"
                THEN Append(txs, Receipt(outcome.hash, 42161,
                                formatUnits(ethSendAmount(snapshot.ethOnArb), 4)
                                    \o <<" ETH (Arbitrum)">>))
                ELSE txs,
                [legs EXCEPT !.eth = PromiseState(clientPc)])
    /\ UNCHANGED <<destination, reads, snapshot>>
    /\ UNCHANGED <<bridgePc, flow, candidates, lastStatus>>
    /\ UNCHANGED <<clientVars, adapterVars, execVars, lifiVars, streamVars, walletVars>>

\* ------------------------------------------- SpecWithdraw: one withdrawal

WithdrawDests == {"0xD1"}

\* USDC on Base, in units of 10^-6 USDC.
UsdcBalances == {0, 1, 5000000}

\* ETH on Arbitrum, in units of 10^14 wei: nothing, below, at and above the
\* gas reserve.
EthBalances == {0, 1, gasReserve, gasReserve + 1, gasReserve + 10}

WithdrawBegins == \E f \in Flows, dest \in WithdrawDests : WithdrawStart(f, dest)

WithdrawAwaitFails == \E error \in RejectionValues : WithdrawAwaitRejects(error)

BalanceReadSettles ==
    \E k \in 1..Len(reads) :
        \E value \in (CASE reads[k].name = "usdcOnBase" -> UsdcBalances
                        [] reads[k].name = "ethOnBase" -> {0}
                        [] reads[k].name = "ethOnArb" -> EthBalances) :
            ReadResolves(k, value)

BalancesSettled ==
    /\ PromiseAll(reads)
    /\ BalancesRead(valueOf(reads, "usdcOnBase"), valueOf(reads, "ethOnArb"))

WithdrawSubmitSettles ==
    /\ wdPc \in {"awaitLeg1", "awaitLeg2"}
    /\ \E res \in BridgeSubmitResponses : SubmitResponse(res)
    /\ UNCHANGED <<adapterVars, extVars>>

WithdrawPollTick ==
    /\ wdPc \in {"awaitLeg1", "awaitLeg2"}
    /\ \E res \in BridgePollResponses : Poll(res)
    /\ UNCHANGED <<adapterVars, extVars>>

NextWithdraw ==
    \/ WithdrawBegins
    \/ WithdrawWalletResolves
    \/ WithdrawAwaitFails
    \/ BalanceReadSettles
    \/ BalancesSettled
    \/ WithdrawSubmitSettles
    \/ WithdrawPollTick
    \/ Leg1Returns
    \/ Leg2Returns

SpecWithdraw == Init /\ [][NextWithdraw]_vars

\* ------------------------------------ the consumer leaves the POST's stream

\* The TypeError of controller.enqueue() and controller.close() on a stream
\* that is no longer readable.
InvalidState == Error("Invalid state: Controller is already closed")

\* The consumer of the response body goes away and the stream is cancelled;
\* the stream was given no cancel() and start(controller) is not told.
ConsumerCancels ==
    /\ flow = "api"
    /\ wdPc \in {"awaitWallet", "awaitBalances", "awaitLeg1", "awaitLeg2"}
    /\ ~cancelled
    /\ cancelled' = TRUE
    /\ UNCHANGED uncaught
    /\ UNCHANGED <<clientVars, adapterVars, execVars, bridgeVars, lifiVars,
                   withdrawVars, walletVars>>

\* An await of start(controller) is over on a cancelled stream: the send
\* that follows it throws, in the try block or, after a rejection, in catch;
\* the send of catch throws; the close of finally throws, and that TypeError
\* is what start(controller) rejects with.
CancelledResumes ==
    /\ flow = "api"
    /\ cancelled
    /\ \/ wdPc = "awaitWallet" /\ UNCHANGED legs
       \/ wdPc = "awaitBalances" /\ UNCHANGED legs
       \/ /\ wdPc = "awaitLeg1"
          /\ Awaited(clientPc)
          /\ legs' = [legs EXCEPT !.usdc = PromiseState(clientPc)]
       \/ /\ wdPc = "awaitLeg2"
          /\ Awaited(clientPc)
          /\ legs' = [legs EXCEPT !.eth = PromiseState(clientPc)]
    /\ wdPc' = "aborted"
    /\ closes' = closes + 1
    /\ uncaught' = <<InvalidState>>
    /\ UNCHANGED <<destination, reads, snapshot, txs, cancelled>>
    /\ UNCHANGED <<bridgePc, flow, candidates, sse, console, lastStatus, exitCode>>
    /\ UNCHANGED <<clientVars, adapterVars, execVars, lifiVars, walletVars>>

\* --------------------- SpecDisconnect: a withdrawal POST and its consumer

WithdrawPosted == \E dest \in WithdrawDests : WithdrawStart("api", dest)

\* The steps of start(controller) whose sends reach a readable stream.
Delivered ==
    /\ ~cancelled
    /\ \/ WithdrawWalletResolves
       \/ WithdrawAwaitFails
       \/ BalancesSettled
       \/ Leg1Returns
       \/ Leg2Returns

NextDisconnect ==
    \/ WithdrawPosted
    \/ Delivered
    \/ BalanceReadSettles
    \/ WithdrawSubmitSettles
    \/ WithdrawPollTick
    \/ ConsumerCancels
    \/ CancelledResumes

SpecDisconnect == Init /\ [][NextDisconnect]_vars

\* ------------------------------ getOrCreateWallet and fetchOrCreateAddress

MaxCalls == 2

\* String.prototype.split(":") of the locators of the model, each part a
\* string of one token.
split(locator) ==
    CASE locator = "userId:demo-user:evm:smart"
            -> <<<<"userId">>, <<"demo-user">>, <<"evm">>, <<"smart">>>>
      [] locator = "email:a@b.co:evm:smart"
            -> <<<<"email">>, <<"a@b.co">>, <<"evm">>, <<"smart">>>>
      [] locator = "userId:demo-user-1700000000000:evm:smart"
            -> <<<<"userId">>, <<"demo-user-1700000000000">>, <<"evm">>, <<"smart">>>>

\* Array.prototype.slice(from, to), with 0-based bounds, to excluded.
slice(xs, from, to) ==
    IF from >= Len(xs) \/ to <= from THEN <<>>
    ELSE SubSeq(xs, from + 1, IF to > Len(xs) THEN Len(xs) ELSE to)

\* const owner = locator.split(":").slice(0, 2).join(":")
owner(locator) == join(slice(split(locator), 0, 2), <<":">>)

\* JSON.stringify of the create request's body.
CreateBody(locator) ==
    [type |-> "smart", chainType |-> "evm", adminSigner |-> "api-key",
     owner |-> owner(locator)]

\* A response of the wallets API, as fetch and json() deliver it.
WalletResponse(fetch, ok, status, json, address) ==
    [fetch |-> fetch, ok |-> ok, status |-> status, json |-> json,
     address |-> address, adminSigner |-> IF address = Undefined THEN Undefined ELSE "0xS1"]

NoWalletResponse == WalletResponse("none", FALSE, 0, FALSE, Undefined)

\* A call of getOrCreateWallet: its locator, where it is, the responses it
\* got, the position of its create request among the creates (0: none), and
\* what it returned or threw.
Call(locator, pc, sequential) ==
    [locator |-> locator, pc |-> pc, sequential |-> sequential,
     getRes |-> NoWalletResponse, create |-> 0, createRes |-> NoWalletResponse,
     address |-> Undefined, error |-> Undefined]

CallSettled(call) == call.pc \in {"returned", "threw"}

\* A resolver that takes the admin signer's address for the wallet's.
createdAdminSigner(created) == created.adminSigner

\* return created.address as string
createdAddress(created) == created.address

\* A lookup that fails on no status at all.
LookupFailedNever(getRes) == FALSE

\* if (getRes.status !== 404) throw ...
LookupFailed(getRes) == getRes.status # 404

\* The text of the Error getApiKey throws.
NoApiKeyMessage ==
    "CROSSMINT_SERVER_API_KEY is not set. Copy .env.example to .env and add your key."

\* A getApiKey that returns whatever the environment holds.
KeyMissingNever(key) == FALSE

\* if (!key) throw ...
KeyMissing(key) == ~Truthy(key)

\* getOrCreateWallet(locatorOverride), up to the GET of fetchOrCreateAddress;
\* getApiKey throws when the key is not set.
getOrCreateWallet(apiKey, locatorOverride) ==
    /\ Len(calls) < MaxCalls
    /\ LET locator == IF locatorOverride # Undefined THEN locatorOverride ELSE getLocator
           sequential == \A k \in 1..Len(calls) : CallSettled(calls[k])
       IN IF KeyMissing(apiKey)
          THEN /\ calls' = Append(calls,
                    [Call(locator, "threw", sequential)
                        EXCEPT !.error = NoApiKeyMessage])
               /\ UNCHANGED lookups
          ELSE /\ calls' = Append(calls, Call(locator, "lookup", sequential))
               /\ lookups' = Append(lookups, locator)
    /\ UNCHANGED <<creates, wallets>>

\* The GET comes back to call k.
LookupResponse(k, getRes) ==
    /\ k \in 1..Len(calls)
    /\ calls[k].pc = "lookup"
    /\ LET call == [calls[k] EXCEPT !.getRes = getRes]
       IN IF getRes.fetch = "rejects"
          THEN /\ calls' = [calls EXCEPT ![k] =
                        [call EXCEPT !.pc = "threw", !.error = "fetch failed"]]
               /\ UNCHANGED creates
          ELSE IF getRes.ok
          THEN /\ calls' = [calls EXCEPT ![k] =
                    IF ~getRes.json
                    THEN [call EXCEPT !.pc = "threw", !.error = "Unexpected token"]
                    ELSE IF ~Truthy(getRes.address)
                    THEN [call EXCEPT !.pc = "threw",
                                      !.error = "Wallet response missing address"]
                    ELSE [call EXCEPT !.pc = "returned", !.address = getRes.address]]
               /\ UNCHANGED creates
          ELSE IF LookupFailed(getRes)
          THEN /\ calls' = [calls EXCEPT ![k] =
                        [call EXCEPT !.pc = "threw", !.error = "GET wallet failed"]]
               /\ UNCHANGED creates
          ELSE /\ creates' = Append(creates, CreateBody(call.locator))
               /\ calls' = [calls EXCEPT ![k] =
                        [call EXCEPT !.pc = "create", !.create = Len(creates) + 1]]
    /\ UNCHANGED <<lookups, wallets>>

\* The POST comes back to call k.
CreateResponse(k, createRes) ==
    /\ k \in 1..Len(calls)
    /\ calls[k].pc = "create"
    /\ LET call == [calls[k] EXCEPT !.createRes = createRes]
       IN calls' = [calls EXCEPT ![k] =
            IF createRes.fetch = "rejects"
            THEN [call EXCEPT !.pc = "threw", !.error = "fetch failed"]
            ELSE IF ~createRes.json
            THEN [call EXCEPT !.pc = "threw", !.error = "Unexpected token"]
            ELSE IF ~createRes.ok
            THEN [call EXCEPT !.pc = "threw", !.error = "Create wallet failed"]
            ELSE IF ~Truthy(createRes.address)
            THEN [call EXCEPT !.pc = "threw",
                              !.error = "Create wallet response missing address"]
            ELSE [call EXCEPT !.pc = "returned", !.address = createdAddress(createRes)]]
    /\ UNCHANGED <<lookups, creates>>

\* ------------------------------------ SpecWallet: the resolver and its backend

WalletLocators == {"userId:demo-user:evm:smart", "email:a@b.co:evm:smart"}

\* The owner the backend keeps the wallet of a locator under.
BackendOwner(locator) ==
    CASE locator = "userId:demo-user:evm:smart" -> <<"userId", ":", "demo-user">>
      [] locator = "email:a@b.co:evm:smart" -> <<"email", ":", "a@b.co">>
      [] locator = "userId:demo-user-1700000000000:evm:smart"
            -> <<"userId", ":", "demo-user-1700000000000">>

\* The address the backend gives the next wallet it provisions.
NextAddress == "0xA1"

\* What the backend can answer a lookup with: the wallet it has, a 404 when
\* it has none, a body without an address or not in JSON, a server error,
\* or no answer.
LookupAnswers(locator) ==
    {WalletResponse("rejects", FALSE, 0, FALSE, Undefined),
     WalletResponse("resolves", FALSE, 500, TRUE, Undefined),
     WalletResponse("resolves", FALSE, 401, FALSE, Undefined)}
    \cup (IF wallets[BackendOwner(locator)] # Undefined
          THEN {WalletResponse("resolves", TRUE, 200, TRUE, wallets[BackendOwner(locator)]),
                WalletResponse("resolves", TRUE, 200, TRUE, Undefined),
                WalletResponse("resolves", TRUE, 200, FALSE, Undefined)}
          ELSE {WalletResponse("resolves", FALSE, 404, TRUE, Undefined)})

\* What the backend can answer a create with, when it answers without
\* provisioning.
CreateFailures ==
    {WalletResponse("rejects", FALSE, 0, FALSE, Undefined),
     WalletResponse("resolves", FALSE, 409, TRUE, Undefined),
     WalletResponse("resolves", FALSE, 502, FALSE, Undefined),
     WalletResponse("resolves", TRUE, 201, TRUE, Undefined)}

WalletCalled ==
    /\ \E apiKey \in {Undefined, "sk_key"}, locatorOverride \in WalletLocators \cup {Undefined} :
            getOrCreateWallet(apiKey, locatorOverride)
    /\ UNCHANGED <<clientVars, adapterVars, execVars, bridgeVars, lifiVars,
                   withdrawVars, streamVars, env, balanceCalls, uiVars>>

LookupSettles ==
    /\ \E k \in 1..Len(calls) :
        \E getRes \in LookupAnswers(calls[k].locator) : LookupResponse(k, getRes)
    /\ UNCHANGED <<clientVars, adapterVars, execVars, bridgeVars, lifiVars,
                   withdrawVars, streamVars, env, balanceCalls, uiVars>>

\* The backend refuses or loses a create.
CreateFails ==
    /\ \E k \in 1..Len(calls) :
        \E createRes \in CreateFailures : CreateResponse(k, createRes)
    /\ UNCHANGED wallets
    /\ UNCHANGED <<clientVars, adapterVars, execVars, bridgeVars, lifiVars,
                   withdrawVars, streamVars, env, balanceCalls, uiVars>>

\* The backend provisions the owner's wallet, or finds that the owner has
\* one, and answers with it.
CreateProvisions ==
    /\ \E k \in 1..Len(calls) :
        /\ calls[k].pc = "create"
        /\ LET body == creates[calls[k].create]
           IN /\ body.owner \in Owners
              /\ wallets' = IF wallets[body.owner] = Undefined
                            THEN [wallets EXCEPT ![body.owner] = NextAddress]
                            ELSE wallets
              /\ CreateResponse(k,
                    WalletResponse("resolves", TRUE, 201, TRUE, wallets'[body.owner]))
    /\ UNCHANGED <<clientVars, adapterVars, execVars, bridgeVars, lifiVars,
                   withdrawVars, streamVars, env, balanceCalls, uiVars>>

NextWallet ==
    \/ WalletCalled
    \/ LookupSettles
    \/ CreateFails
    \/ CreateProvisions

SpecWallet == Init /\ [][NextWallet]_vars

\* -------------------------------------------------------- getWalletBalances

MaxBalanceCalls == 1

\* A call of getWalletBalances: whether its GET was sent, where it is, and
\* what it returned or threw.
BalanceCall(address, chain, pc, sent) ==
    [address |-> address, chain |-> chain, pc |-> pc, sent |-> sent,
     tokens |-> <<>>, error |-> Undefined]

\* getWalletBalances(address, chain = "base"), up to its GET; getApiKey
\* throws when the key is not set.
getWalletBalances(apiKey, address, chain) ==
    /\ Len(balanceCalls) < MaxBalanceCalls
    /\ balanceCalls' = Append(balanceCalls,
            IF KeyMissing(apiKey)
            THEN [BalanceCall(address, chain, "threw", FALSE)
                    EXCEPT !.error = NoApiKeyMessage]
            ELSE BalanceCall(address, chain, "get", TRUE))
    /\ UNCHANGED <<calls, lookups, creates, wallets, env, uiVars>>

\* The GET comes back to call k: a status that is not ok throws, a body that
\* is not an array gives no token, an array gives its tokens.
BalancesResponse(k, res) ==
    /\ k \in 1..Len(balanceCalls)
    /\ balanceCalls[k].pc = "get"
    /\ balanceCalls' = [balanceCalls EXCEPT ![k] =
            IF res.fetch = "rejects" THEN [@ EXCEPT !.pc = "threw", !.error = "fetch failed"]
            ELSE IF ~res.ok THEN [@ EXCEPT !.pc = "threw", !.error = "GET balances failed"]
            ELSE IF ~res.json THEN [@ EXCEPT !.pc = "threw", !.error = "Unexpected token"]
            ELSE IF ~res.isArray THEN [@ EXCEPT !.pc = "returned"]
            ELSE [@ EXCEPT !.pc = "returned", !.tokens = res.data]]
    /\ UNCHANGED <<calls, lookups, creates, wallets, env, uiVars>>

\* ------------------ SpecSecret: the API key, the calls and the operations

ApiKeys == {Undefined, "", "sk_key"}

BalanceResponses ==
    {[fetch |-> "rejects", ok |-> FALSE, json |-> FALSE, isArray |-> FALSE, data |-> <<>>],
     [fetch |-> "resolves", ok |-> FALSE, json |-> FALSE, isArray |-> FALSE, data |-> <<>>],
     [fetch |-> "resolves", ok |-> TRUE, json |-> FALSE, isArray |-> FALSE, data |-> <<>>],
     [fetch |-> "resolves", ok |-> TRUE, json |-> TRUE, isArray |-> FALSE, data |-> <<>>],
     [fetch |-> "resolves", ok |-> TRUE, json |-> TRUE, isArray |-> TRUE, data |-> <<"USDC">>]}

OtherVars == <<clientVars, adapterVars, execVars, bridgeVars, lifiVars, withdrawVars, streamVars>>

\* The environment is given a value for the key.
Configure ==
    /\ ~Truthy(env)
    /\ \E key \in ApiKeys : key # env /\ env' = key
    /\ UNCHANGED <<calls, lookups, creates, wallets, balanceCalls, uiVars>>
    /\ UNCHANGED OtherVars

\* A POST or a script begins, before any call of getOrCreateWallet.
OperationBegins ==
    /\ calls = <<>>
    /\ wdPc = "idle" /\ bridgePc = "idle"
    /\ WithdrawBegins \/ (\E f \in Flows : BridgeStart(f))

\* An operation is at `await getOrCreateWallet(...)` and the call has not
\* been made yet: the first call is the operation's.
OperationWaits == (wdPc = "awaitWallet" \/ bridgePc = "awaitWallet") /\ calls = <<>>

\* The operation that has just begun calls getOrCreateWallet, with the key
\* of the environment: the bridge without a locator, the withdrawal with the
\* locator of its request, if any.
SecretWalletCalled ==
    /\ OperationWaits
    /\ \E locatorOverride \in
            (IF wdPc = "awaitWallet" THEN WalletLocators \cup {Undefined} ELSE {Undefined}) :
                getOrCreateWallet(env, locatorOverride)
    /\ UNCHANGED <<env, balanceCalls, uiVars>>
    /\ UNCHANGED OtherVars

SecretBalancesCalled ==
    /\ ~OperationWaits
    /\ getWalletBalances(env, "0xA0", "base")
    /\ UNCHANGED OtherVars

SecretBalancesSettle ==
    /\ \E k \in 1..Len(balanceCalls) :
        \E res \in BalanceResponses : BalancesResponse(k, res)
    /\ UNCHANGED OtherVars

\* The operation's await of getOrCreateWallet is over.
OperationResumes ==
    /\ calls # <<>>
    /\ \/ /\ wdPc = "awaitWallet"
          /\ IF calls[1].pc = "threw"
             THEN WithdrawAwaitRejects(Error(calls[1].error))
             ELSE calls[1].pc = "returned" /\ WithdrawWalletResolves
       \/ /\ bridgePc = "awaitWallet"
          /\ IF calls[1].pc = "threw"
             THEN AwaitRejects(Error(calls[1].error))
             ELSE calls[1].pc = "returned" /\ WalletResolves

NextSecret ==
    \/ Configure
    \/ OperationBegins
    \/ SecretWalletCalled
    \/ SecretBalancesCalled
    \/ SecretBalancesSettle
    \/ LookupSettles
    \/ CreateFails
    \/ CreateProvisions
    \/ OperationResumes

SpecSecret == Init /\ [][NextSecret]_vars

\* ------------------------------ configureLifi and executions that interleave

\* The callers that configure LI.FI in one process.
MaxRuns == 2

Run(wallet, pc, provider) == [wallet |-> wallet, pc |-> pc, provider |-> provider]

\* configureLifi(wallet): createConfig replaces the SDK's configuration, whose
\* EVM provider closes over this wallet.
configureLifi(wallet) == sdkConfig' = wallet

\* A caller gets its wallet, calls configureLifi(wallet) and awaits
\* getBestRoute.
CallerConfigures(wallet) ==
    /\ Len(runs) < MaxRuns
    /\ configureLifi(wallet)
    /\ runs' = Append(runs, Run(wallet, "awaitRoute", Undefined))
    /\ UNCHANGED <<clients, sentOn, provided, signedUnder>>

\* getBestRoute resolved: the caller calls executeBridgeRoute(route, options),
\* which calls executeRoute(route, {...}). Neither is passed the wallet: the
\* engine takes the signer from the provider of the SDK's configuration as
\* it is now.
RunExecutes(e) ==
    /\ e \in 1..Len(runs)
    /\ runs[e].pc = "awaitRoute"
    /\ runs' = [runs EXCEPT ![e] = Run(runs[e].wallet, "executing", sdkConfig)]
    /\ UNCHANGED <<clients, sentOn, provided, sdkConfig, signedUnder>>

\* A step of execution e needs a transaction: the engine asks the provider
\* for the wallet client (getWalletClient or switchChain, closing over the
\* provider's wallet) and requests eth_sendTransaction on it, which is
\* wallet.sendTransaction, that is submitTransaction under wallet.locator. The
\* provider is the one the engine took at the executeRoute call, or the one
\* of the configuration at this step (reread).
RunSends(e, reread) ==
    /\ e \in 1..Len(runs)
    /\ runs[e].pc = "executing"
    /\ LET wallet == IF reread THEN sdkConfig ELSE runs[e].provider
       IN submitTransaction(wallet, SendTransactionParams(LifiTx, "base"))
    /\ signedUnder' = Append(signedUnder, e)
    /\ UNCHANGED <<clients, sentOn, provided, sdkConfig, runs>>

\* executeRoute of execution e settles.
RunSettles(e) ==
    /\ e \in 1..Len(runs)
    /\ runs[e].pc = "executing"
    /\ runs' = [runs EXCEPT ![e].pc = "done"]
    /\ UNCHANGED <<clients, sentOn, provided, sdkConfig, signedUnder>>

\* ----------- SpecConfig: callers with different wallets in one process

\* The status fetches of this specification settle at once.
ConfigPollResponses == {res \in BridgePollResponses : res.data.status # "pending"}

ConfigOthers ==
    <<adapterVars, execVars, bridgeVars, withdrawVars, streamVars, walletVars>>

Configures ==
    /\ \E wallet \in WalletLocators : CallerConfigures(wallet)
    /\ UNCHANGED <<clientVars, ConfigOthers>>

Executes ==
    /\ \E e \in 1..Len(runs) : RunExecutes(e)
    /\ UNCHANGED <<clientVars, ConfigOthers>>

EngineSendsIntent ==
    /\ sendCalls < MaxRequests
    /\ \E e \in 1..Len(runs), reread \in BOOLEAN : RunSends(e, reread)
    /\ UNCHANGED ConfigOthers

ConfigSubmitSettles ==
    /\ signedUnder # <<>>
    /\ \E res \in BridgeSubmitResponses : SubmitResponse(res)
    /\ UNCHANGED <<adapterVars, extVars>>

ConfigPollTick ==
    /\ signedUnder # <<>>
    /\ \E res \in ConfigPollResponses : Poll(res)
    /\ UNCHANGED <<adapterVars, extVars>>

ConfigRequestReturn ==
    /\ signedUnder # <<>>
    /\ sendTransactionReturn
    /\ UNCHANGED <<adapterVars, extVars>>

ExecutionSettles ==
    /\ clientPc = "idle"
    /\ \E e \in 1..Len(runs) : RunSettles(e)
    /\ UNCHANGED <<clientVars, ConfigOthers>>

NextConfig ==
    \/ Configures
    \/ Executes
    \/ EngineSendsIntent
    \/ ConfigSubmitSettles
    \/ ConfigPollTick
    \/ ConfigRequestReturn
    \/ ExecutionSettles

SpecConfig == Init /\ [][NextConfig]_vars

\* ------------------------------------- the page: its wallet and its requests

\* `demo-user-${Date.now()}` of newWallet.
NewUserId == "demo-user-1700000000000"

\* /api/wallet GET: userId ? `userId:${userId}:evm:smart` : undefined
UserLocator(userId) ==
    CASE userId = Undefined -> Undefined
      [] userId = "demo-user" -> "userId:demo-user:evm:smart"
      [] userId = NewUserId -> "userId:demo-user-1700000000000:evm:smart"

\* The locator of the wallet the page displays: that of its userId, or the
\* server's default when it has none.
Displayed ==
    IF session.userId = Undefined THEN getLocator ELSE UserLocator(session.userId)

\* executeWithdraw: JSON.stringify({ destination: withdrawDest }); the POST
\* destructures { destination, locator } from it.
WithdrawBody(dest) ==
    [kind |-> "withdraw", destination |-> dest, locator |-> Undefined, call |-> 0]

\* executeBridge: the body names the chains, the tokens and the amount.
BridgeRequestBody ==
    [kind |-> "bridge", destination |-> Undefined, locator |-> Undefined, call |-> 0]

\* initWallet(userId): the page GETs /api/wallet, whose handler calls
\* getOrCreateWallet with the locator of the userId, if it was given one.
initWallet(userId) ==
    /\ session.loading = 0
    /\ getOrCreateWallet(env, UserLocator(userId))
    /\ session' = [session EXCEPT !.loading = Len(calls) + 1, !.uid = userId]
    /\ UNCHANGED <<env, balanceCalls, served, response>>

\* The GET comes back: setWallet(data) and setWalletUserId(uid) when it was
\* ok, setWalletError otherwise.
WalletLoaded ==
    /\ session.loading # 0
    /\ CallSettled(calls[session.loading])
    /\ session' = IF calls[session.loading].pc = "returned"
                  THEN [userId |-> session.uid,
                        address |-> calls[session.loading].address,
                        loading |-> 0, uid |-> Undefined]
                  ELSE [session EXCEPT !.loading = 0, !.uid = Undefined]
    /\ UNCHANGED <<calls, lookups, creates, wallets, env, balanceCalls, served, response>>

\* The page POSTs a withdrawal or a bridge.
PagePosts(body) ==
    /\ session.address # Undefined
    /\ session.loading = 0
    /\ served = NotServed
    /\ served' = body
    /\ UNCHANGED <<calls, lookups, creates, wallets, env, balanceCalls, session, response>>

\* The characters of the destinations of the model: "0xD1" is an address of
\* 42 characters, "0xD" lacks one, "D1" has 42 without the prefix.
chars(s) ==
    CASE s = "0xD1" -> <<"0", "x">> \o [k \in 1..40 |-> "d"]
      [] s = "0xD" -> <<"0", "x">> \o [k \in 1..39 |-> "d"]
      [] s = "D1" -> [k \in 1..42 |-> "d"]
      [] OTHER -> <<>>

\* String.prototype.startsWith
startsWith(s, prefix) ==
    /\ Len(chars(s)) >= Len(prefix)
    /\ SubSeq(chars(s), 1, Len(prefix)) = prefix

\* A handler that takes any destination.
AnyDestination(dest) == FALSE

\* !destination || !destination.startsWith("0x") || destination.length !== 42
InvalidDestination(dest) ==
    \/ ~Truthy(dest)
    \/ ~startsWith(dest, <<"0", "x">>)
    \/ Len(chars(dest)) # 42

\* Response.json({ error: "Invalid destination address" }, { status: 400 })
BadRequest == [status |-> 400, error |-> "Invalid destination address"]

\* The POST reaches its handler: the withdrawal's returns 400 for a
\* destination that is not valid, and otherwise opens the stream and starts,
\* as the bridge's does.
Served ==
    /\ served.kind # "none"
    /\ response = NoJson
    /\ wdPc = "idle" /\ bridgePc = "idle"
    /\ IF served.kind = "withdraw"
       THEN IF InvalidDestination(served.destination)
            THEN /\ response' = BadRequest
                 /\ UNCHANGED <<calls, lookups, creates, wallets, env, balanceCalls,
                                session, served>>
                 /\ UNCHANGED OtherVars
            ELSE WithdrawStart("api", served.destination)
       ELSE BridgeStart("api")

\* The handler's `await getOrCreateWallet(locator)`, the bridge's
\* `await getOrCreateWallet()`.
ServedWalletCalled ==
    /\ wdPc = "awaitWallet" \/ bridgePc = "awaitWallet"
    /\ served.call = 0
    /\ getOrCreateWallet(env, IF served.kind = "withdraw" THEN served.locator
                              ELSE Undefined)
    /\ served' = [served EXCEPT !.call = Len(calls) + 1]
    /\ UNCHANGED <<env, balanceCalls, session, response>>

\* ---------------- SpecSession: the page loads wallets and starts operations

SessionDests == {"0xD1"}

SessionConfigure ==
    /\ env = Undefined
    /\ env' = "sk_key"
    /\ UNCHANGED <<calls, lookups, creates, wallets, balanceCalls, uiVars>>
    /\ UNCHANGED OtherVars

\* The page mounts, or its user asks for a new wallet.
PageLoadsWallet ==
    /\ served = NotServed
    /\ \E userId \in {Undefined, NewUserId} : initWallet(userId)
    /\ UNCHANGED OtherVars

PageWalletLoaded == WalletLoaded /\ UNCHANGED OtherVars

PageWithdraws ==
    /\ \E dest \in SessionDests : PagePosts(WithdrawBody(dest))
    /\ UNCHANGED OtherVars

PageBridges == PagePosts(BridgeRequestBody) /\ UNCHANGED OtherVars

ServedCallsWallet == ServedWalletCalled /\ UNCHANGED OtherVars

\* The handler's await of getOrCreateWallet is over.
ServedResumes ==
    /\ served.call # 0
    /\ IF served.kind = "withdraw"
       THEN IF calls[served.call].pc = "threw"
            THEN WithdrawAwaitRejects(Error(calls[served.call].error))
            ELSE calls[served.call].pc = "returned" /\ WithdrawWalletResolves
       ELSE IF calls[served.call].pc = "threw"
            THEN AwaitRejects(Error(calls[served.call].error))
            ELSE calls[served.call].pc = "returned" /\ WalletResolves

NextSession ==
    \/ SessionConfigure
    \/ PageLoadsWallet
    \/ PageWalletLoaded
    \/ PageWithdraws
    \/ PageBridges
    \/ Served
    \/ ServedCallsWallet
    \/ LookupSettles
    \/ CreateFails
    \/ CreateProvisions
    \/ ServedResumes

SpecSession == Init /\ [][NextSession]_vars

\* --------------------------- SpecRequest: withdraw POSTs of any destination

RequestDests == {Undefined, "", "D1", "0xD", "0xD1"}

\* A client POSTs { destination, locator } to the withdraw route.
WithdrawRequested ==
    /\ served = NotServed
    /\ \E dest \in RequestDests, locator \in WalletLocators \cup {Undefined} :
          served' = [kind |-> "withdraw", destination |-> dest,
                     locator |-> locator, call |-> 0]
    /\ UNCHANGED <<calls, lookups, creates, wallets, env, balanceCalls, session,
                   response>>
    /\ UNCHANGED OtherVars

NextRequest ==
    \/ SessionConfigure
    \/ WithdrawRequested
    \/ Served
    \/ ServedCallsWallet
    \/ LookupSettles
    \/ CreateFails
    \/ CreateProvisions
    \/ ServedResumes
    \/ BalanceReadSettles
    \/ BalancesSettled

SpecRequest == Init /\ [][NextRequest]_vars

\* ================================================================ claims

\* The latest status fetch returned a transaction record.
SawRecord == lastPoll.fetch = "resolves" /\ lastPoll.ok /\ lastPoll.json

\* The latest status fetch failed in transit: the fetch rejected, the body
\* was unreadable, or the HTTP status was not a success.
SawTransientFailure == lastPoll.fetch # "none" /\ ~SawRecord

\* The latest status fetch was a network error (as opposed to an HTTP error).
SawNetworkError ==
    lastPoll.fetch = "rejects" \/ (lastPoll.fetch = "resolves" /\ lastPoll.ok /\ ~lastPoll.json)

Settled == clientPc \in {"resolved", "rejected"}

\* C1: sendTransaction resolves with a hash only in a poll iteration whose
\* fetched record has status success; the hash is that record's, and no hash
\* is ever held while the last observed status is anything else.
C1_HashOnlyOnSuccess ==
    (outcome.kind = "resolved" \/ outcome.hash # Undefined)
        => /\ SawRecord
           /\ lastPoll.data.status = "success"
           /\ Len(gets) = i + 1

C1_Witness ==
    /\ outcome.kind = "resolved"
    /\ i >= 2
    /\ lastPoll.data.status = "success"

\* C2: a poll that observes success with a hash resolves the call with
\* exactly that hash; a poll that observes failed rejects the call, and
\* no hash is returned.
C2_SuccessHashFailedNone ==
    /\ (SawRecord /\ lastPoll.data.status = "success" /\ Truthy(lastPoll.data.txId))
          => /\ clientPc = "resolved"
             /\ outcome.kind = "resolved"
             /\ outcome.hash = lastPoll.data.txId
    /\ (SawRecord /\ lastPoll.data.status = "failed")
          => /\ clientPc = "rejected"
             /\ outcome.kind = "rejected"
             /\ outcome.hash = Undefined

C2_Witness ==
    /\ clientPc = "resolved"
    /\ outcome.hash = "0xbb"
    /\ lastPoll.data.txId = "0xbb"
    /\ txId = "tx-2"

\* C3: once polling is entered, for any mix of records and non-success HTTP
\* responses at most maxAttempts status fetches are issued, the call settles
\* as exactly one of hash, backend failure or timeout, and polling always
\* ends.
C3_Outcome ==
    IF outcome.kind = "resolved" THEN "hash"
    ELSE IF outcome.msg = "Transaction failed on-chain" THEN "failed"
    ELSE IF outcome.msg = "timed out" THEN "timeout"
    ELSE "other"

C3_BoundedPolling ==
    /\ [](Len(gets) <= maxAttempts)
    /\ []((Settled /\ gets # <<>> /\ ~SawNetworkError)
             => C3_Outcome \in {"hash", "failed", "timeout"})
    /\ (clientPc = "polling") ~> Settled

C3_Witness ==
    /\ Settled
    /\ C3_Outcome = "timeout"
    /\ Len(gets) = maxAttempts
    /\ ~allPending
    /\ ~lastPoll.ok

\* C4: when every status fetch of the budget returns pending, the call
\* rejects with the timeout error naming the transaction identifier, after
\* exactly maxAttempts fetches; before that it stays unsettled.
C4_PendingTimesOut ==
    (allPending /\ gets # <<>>)
        => IF Len(gets) < maxAttempts
           THEN clientPc = "polling" /\ outcome = Pending
           ELSE /\ Len(gets) = maxAttempts
                /\ clientPc = "rejected"
                /\ outcome.kind = "rejected"
                /\ outcome.msg = "timed out"
                /\ outcome.txId = txId
                /\ txId \in TxIds
                /\ outcome.hash = Undefined

C4_Witness ==
    /\ allPending
    /\ clientPc = "rejected"
    /\ outcome.msg = "timed out"
    /\ outcome.txId = "tx-2"

\* C5: a poll that observes failed ends the loop at once: the call is
\* rejected with an error that carries the observed record, whose message is
\* not the timeout's, and no status fetch is issued afterwards.
C5_FailedEndsLoop ==
    /\ []((SawRecord /\ lastPoll.data.status = "failed")
             => /\ clientPc = "rejected"
                /\ outcome.kind = "rejected"
                /\ outcome.data = lastPoll.data
                /\ outcome.txId = txId
                /\ outcome.msg # TimeoutError(txId).msg
                /\ Len(gets) = i + 1)
    /\ [][(SawRecord /\ lastPoll.data.status = "failed")
             => (gets' = gets /\ outcome' = outcome)]_vars

C5_Witness ==
    /\ SawRecord
    /\ lastPoll.data.status = "failed"
    /\ outcome.data.error = "out_of_gas"
    /\ i >= 1

\* C6 (as claimed): a transient fetch failure during polling (the fetch
\* rejecting, an unreadable body, a non-success HTTP status) never aborts
\* the loop: the call stays in the loop unless the budget is exhausted.
C6_TransientNeverAborts ==
    SawTransientFailure => (clientPc = "polling" \/ outcome.msg = "timed out")

\* C7 (as claimed): a poll that observes success without a hash rejects the
\* call at that poll with a malformed-response error, not a timeout.
C7_SuccessWithoutHashIsFatal ==
    (SawRecord /\ lastPoll.data.status = "success" /\ ~Truthy(lastPoll.data.txId))
        => (clientPc = "rejected" /\ outcome.msg # "timed out")

\* C8: each sendTransaction call issues exactly one intent POST; a POST
\* that fails or returns no identifier rejects the call with no status fetch;
\* and once the POST is out, no later step issues another one.
C8_OnePostPerCall ==
    /\ [](Len(posts) = sendCalls)
    /\ [](clientPc # "idle" => Len(posts) = 1)
    /\ []((clientPc \in {"polling", "resolved", "rejected"} /\ ~Truthy(txId))
             => (gets = <<>> /\ clientPc = "rejected"))
    /\ [](gets # <<>> => \A k \in 1..Len(gets) : gets[k] = txId /\ txId \in TxIds)
    /\ [][clientPc # "idle" => posts' = posts]_vars

C8_Witness ==
    /\ clientPc = "rejected"
    /\ outcome.msg = "Transaction submission failed"
    /\ Len(posts) = 1
    /\ gets = <<>>

\* A request has been issued on the dispatch object.
Requested == adapterPc \in {"awaitSend", "awaitRpc", "returned", "threw"}

\* The one JSON-RPC call a read request forwards.
ForwardedCall == RpcCall(rpcUrl(viemClient.chain), req.method, req.params)

\* C9 (as claimed): eth_sendTransaction invokes the custodial sendTransaction
\* exactly once and sends nothing to the chain RPC; every other method sends
\* exactly one JSON-RPC call with the same method and params to the chain's
\* default RPC URL and never invokes the custodial client.
C9_Original ==
    Requested
        => IF req.method = "eth_sendTransaction"
           THEN sendCalls = 1 /\ rpcCalls = <<>>
           ELSE rpcCalls = <<ForwardedCall>> /\ sendCalls = 0 /\ posts = <<>>

\* C9 (amended): as claimed, except that for a chain descriptor with no
\* default RPC URL a read request throws without sending anything.
C9_Dispatch ==
    Requested
        => IF req.method = "eth_sendTransaction"
           THEN sendCalls = 1 /\ rpcCalls = <<>>
           ELSE /\ sendCalls = 0 /\ posts = <<>> /\ gets = <<>>
                /\ IF viemClient.chain.http # <<>>
                   THEN rpcCalls = <<ForwardedCall>>
                   ELSE rpcCalls = <<>> /\ result.kind = "threw"

C9_Witness ==
    /\ adapterPc = "returned"
    /\ req.method = "eth_call"
    /\ rpcCalls = <<RpcCall("https://arb1.arbitrum.io/rpc", "eth_call",
                            <<"0xD1", "latest">>)>>
    /\ sendCalls = 0

\* The transaction object of the eth_sendTransaction request.
Tx == req.params[1]

\* C10: an eth_sendTransaction request submits one intent with the request's
\* destination and call-data ("0x" when absent), a value numerically equal to
\* the request's hex value (0 when absent) and the custodial chain name of
\* the adapter's chain id; it returns exactly the hash sendTransaction
\* resolved, and settles only after sendTransaction has.
C10_IntentMatchesRequest ==
    (Requested /\ req.method = "eth_sendTransaction")
        => /\ Len(posts) = 1
           /\ posts[1].body.to = Tx.to
           /\ posts[1].body.data = (IF Tx.data = Undefined THEN "0x" ELSE Tx.data)
           /\ SubSeq(posts[1].body.value, 1, 2) = <<"0", "x">>
           /\ BigInt(posts[1].body.value)
                 = (IF Tx.value \in {UndefinedStr, <<>>} THEN 0 ELSE BigInt(Tx.value))
           /\ posts[1].body.chain = CHAIN_ID_TO_CROSSMINT(viemClient.chain.id)
           /\ posts[1].body.chain # Undefined
           /\ result.kind # "none" => Settled
           /\ result.kind = "returned"
                 => /\ clientPc = "resolved"
                    /\ result.value = outcome.hash
                    /\ result.value = lastPoll.data.txId
                    /\ lastPoll.data.status = "success"

C10_Witness ==
    /\ adapterPc = "returned"
    /\ req.method = "eth_sendTransaction"
    /\ Tx.value = <<"0", "x", "0", "f">>
    /\ posts[1].body.value = <<"0", "x", "f">>
    /\ posts[1].body.chain = "arbitrum"
    /\ result.value = "0xbb"
    /\ i >= 1

\* The chain ids CHAIN_ID_TO_CROSSMINT lists.
MappedChainIds == {8453, 42161, 1, 137, 10}

\* C11: a chain id with no entry in the chain-name table, passed to
\* buildCrossmintViemClient, raises the configuration error and nothing else
\* happens: no dispatch object exists for it, and no transaction intent, no
\* status fetch and no chain RPC call is ever issued on that path.
C11_UnmappedChainNoNetwork ==
    (adapterPc # "unbuilt" /\ viemClient.chain.id \notin MappedChainIds)
        => /\ adapterPc = "configError"
           /\ result.kind = "threw"
           /\ result.msg = "is not mapped to a Crossmint chain name"
           /\ req = NoRequest
           /\ sendCalls = 0 /\ posts = <<>> /\ gets = <<>> /\ rpcCalls = <<>>

C11_Witness ==
    /\ adapterPc = "configError"
    /\ viemClient.chain.id = 56
    /\ Truthy(rpcUrl(viemClient.chain))

\* The status tuple an emitted event shows: the status of `Step k: status`
\* of its message, for each step k.
EmittedTuple(e) == [k \in 1..e.totalSteps |-> e.message[5 * (k - 1) + 4]]

LastEvent == events[Len(events)]

\* C13: for a caller that passed onUpdate, a step-update notification whose
\* status tuple equals the tuple of the most recently emitted event invokes
\* nothing, and any other notification (the first one, or one whose tuple
\* differs from the latest event's) invokes onUpdate exactly once, with that
\* tuple.
C13_EmitOnChange ==
    [][(updates' = updates + 1 /\ options.onUpdate)
        => IF events # <<>> /\ EmittedTuple(LastEvent) = statuses(update')
           THEN events' = events
           ELSE /\ Len(events') = Len(events) + 1
                /\ SubSeq(events', 1, Len(events)) = events
                /\ EmittedTuple(events'[Len(events')]) = statuses(update')]_vars

C13_Witness ==
    /\ options.onUpdate
    /\ updates = 3
    /\ Len(events) = 2
    /\ route.steps = 2
    /\ EmittedTuple(events[1]) # EmittedTuple(events[2])
    /\ statuses(update) = EmittedTuple(events[2])

\* C14 as stated: no status tuple is emitted twice over one execution, also
\* when other tuples were emitted in between.
C14_Original ==
    \A a \in 1..Len(events), b \in 1..Len(events) :
        a < b => EmittedTuple(events[a]) # EmittedTuple(events[b])

\* C14: no status tuple is emitted twice in a row: two consecutive events
\* always differ in their tuple (a tuple emitted earlier is emitted again
\* when another tuple was emitted in between).
C14_NoRepeatInARow ==
    \A k \in 1..(Len(events) - 1) :
        EmittedTuple(events[k]) # EmittedTuple(events[k + 1])

C14_Witness ==
    /\ Len(events) = 3
    /\ EmittedTuple(events[1]) = <<"PENDING">>
    /\ EmittedTuple(events[2]) = <<"ACTION_REQUIRED">>
    /\ EmittedTuple(events[3]) = <<"PENDING">>

\* The 1-based position of the first ACTION_REQUIRED or PENDING entry of a
\* status tuple, and 1 when there is none.
FirstActive(tuple) ==
    LET hits == {k \in 1..Len(tuple) : tuple[k] \in {"ACTION_REQUIRED", "PENDING"}}
    IN IF hits = {} THEN 1 ELSE CHOOSE k \in hits : \A h \in hits : k <= h

\* C15: every emitted event carries the route's step count, and a step index
\* that is the position of the first ACTION_REQUIRED or PENDING entry of its
\* status tuple (1 when there is none).
C15_StepIndex ==
    \A k \in 1..Len(events) :
        /\ events[k].totalSteps = route.steps
        /\ events[k].step = FirstActive(EmittedTuple(events[k]))

\* C16: executeRoute is called, and an intent is submitted, only in a bridge
\* whose route discovery returned at least one candidate; with no candidate
\* the bridge ends without executing.
C16_NoRouteNoExecution ==
    /\ (bridgePc = "executing" \/ execPc # "idle" \/ sendCalls > 0 \/ posts # <<>>)
            => Len(candidates) >= 1
    /\ bridgePc = "noRoute"
            => /\ candidates = <<>>
               /\ execPc = "idle" /\ routeResult = NoRouteResult
               /\ sendCalls = 0 /\ posts = <<>>

C16_Witness ==
    /\ bridgePc = "noRoute"
    /\ flow = "api"
    /\ candidates = <<>>

\* The events of one kind on the stream.
EventsOf(kind) == {k \in 1..Len(sse) : sse[k].event = kind}

ReasonText(reason) ==
    IF reason.message # Undefined THEN <<reason.message>> ELSE <<reason.value>>

\* C18 as stated: when the engine rejects, the stream carries exactly one
\* error event, with the rejection reason unchanged as its message whatever
\* the rejection value is, no complete event and no list of transactions.
C18_Original ==
    (routeResult.kind = "rejected" /\ flow = "api")
        => /\ EventsOf("error") = {Len(sse)}
           /\ sse[Len(sse)].message = ReasonText(routeResult.reason)
           /\ EventsOf("complete") = {}
           /\ \A k \in 1..Len(sse) : sse[k].transactions = <<>>

\* C18: when the engine rejects, the stream carries exactly one error event,
\* no complete event and no list of transactions; the message is the
\* rejection's message when the engine rejected with an Error, and the fixed
\* text "Unknown error occurred" when it rejected with any other value.
C18_RejectionReported ==
    (routeResult.kind = "rejected" /\ flow = "api")
        => /\ EventsOf("error") = {Len(sse)}
           /\ sse[Len(sse)].message =
                IF routeResult.reason.isError
                THEN <<routeResult.reason.message>>
                ELSE <<"Unknown error occurred">>
           /\ EventsOf("complete") = {}
           /\ \A k \in 1..Len(sse) : sse[k].transactions = <<>>

C18_Witness ==
    /\ routeResult.kind = "rejected"
    /\ flow = "api"
    /\ ~routeResult.reason.isError
    /\ routeResult.reason.message # Undefined
    /\ sendCalls = 1
    /\ sse[Len(sse)] = UnknownErrorEvent

\* The hashes of the process entries of a result that are DONE and carry a
\* hash, in step order.
ConfirmedHashes(steps) ==
    LET all == flatMapProcess(steps)
        F[k \in 0..Len(all)] ==
            IF k = 0 THEN <<>>
            ELSE IF all[k].status = "DONE" /\ all[k].txHash \notin {Undefined, ""}
                 THEN Append(F[k - 1], all[k].txHash) ELSE F[k - 1]
    IN F[Len(all)]

\* The receipts the script printed.
Receipts == SelectSeq(console, LAMBDA line : line.stream = "receipt")

\* C19: on a resolved execution the transactions of the complete event, the
\* hashes passed to onComplete and the receipts of the script are each
\* exactly the DONE entries with a hash, in step order.
C19_OnlyConfirmedHashes ==
    routeResult.kind = "resolved"
        => /\ \A k \in EventsOf("complete") :
                [n \in 1..Len(sse[k].transactions) |-> sse[k].transactions[n].txHash]
                    = ConfirmedHashes(routeResult.steps)
           /\ \A k \in 1..Len(completed) :
                completed[k] = ConfirmedHashes(routeResult.steps)
           /\ flow = "cli"
                => [n \in 1..Len(Receipts) |-> Receipts[n].text[3]]
                        = ConfirmedHashes(routeResult.steps)

\* C12: a dispatch object, once built, keeps the chain it was built for
\* whatever is built after it, and every intent carries the custodial chain
\* name of the chain of the object it was requested on, under the one wallet
\* locator.
C12_OwnChainPerObject ==
    [][/\ SubSeq(clients', 1, Len(clients)) = clients
       /\ \A k \in 1..Len(posts') :
            /\ posts'[k].locator = getLocator
            /\ posts'[k].body.chain
                    = CHAIN_ID_TO_CROSSMINT(clients'[sentOn'[k]].chain.id)]_vars

C12_Witness ==
    /\ Len(clients) = 2
    /\ clients[1].crossmintChain = "base"
    /\ clients[2].crossmintChain = "arbitrum"
    /\ sentOn = <<1, 2, 1>>
    /\ posts[1].body.chain = "base"
    /\ posts[2].body.chain = "arbitrum"
    /\ posts[3].body.chain = "base"
    /\ clientPc = "polling"

\* The intents of a withdrawal leg among the POSTs: the USDC leg goes to the
\* token contract on base, the ETH leg to the destination on arbitrum.
LegPosts(chain) == {k \in 1..Len(posts) : posts[k].body.chain = chain}

\* C20: the legs of a withdrawal run one after the other, USDC on base first:
\* the ETH leg's intent is submitted only when the USDC leg was skipped or its
\* sendTransaction has resolved a hash, it comes after the USDC leg's intent,
\* each leg submits at most one intent, and the two are never in flight
\* together.
C20_LegsInSequence ==
    /\ ~(legs.usdc = "inflight" /\ legs.eth = "inflight")
    /\ legs.eth # "none" => legs.usdc \in {"skipped", "resolved"}
    /\ LegPosts("arbitrum") # {}
            => /\ legs.usdc \in {"skipped", "resolved"}
               /\ legs.usdc = "resolved" <=> LegPosts("base") # {}
    /\ \A a \in LegPosts("base"), b \in LegPosts("arbitrum") : a < b
    /\ Cardinality(LegPosts("base")) <= 1
    /\ Cardinality(LegPosts("arbitrum")) <= 1
    /\ LegPosts("base") \cup LegPosts("arbitrum") = 1..Len(posts)
    /\ flow = "api" /\ legs.usdc = "resolved"
            => Len(txs) >= 1 /\ txs[1].txHash \notin {Undefined, ""}

C20_Witness ==
    /\ flow = "api"
    /\ legs = [usdc |-> "resolved", eth |-> "inflight"]
    /\ Len(posts) = 2
    /\ posts[1].body.chain = "base"
    /\ posts[2].body.chain = "arbitrum"
    /\ Len(txs) = 1
    /\ clientPc = "polling"

\* The POSTs issued so far are the intents of the withdrawal's legs.
Submitted == posts # <<>>

\* C21: every balance read has resolved before the first intent is submitted
\* and the snapshot holds what the reads resolved; once an intent has been
\* submitted no read is issued or resolved and the snapshot does not change;
\* the ETH leg's value is the snapshot's ETH balance less the gas reserve; and
\* when the operation failed while the balances were being read, no intent
\* was submitted.
C21_SnapshotBeforeLegs ==
    [][/\ Submitted'
            => /\ \A k \in 1..Len(reads') : reads'[k].value >= 0
               /\ snapshot'.usdcOnBase = valueOf(reads', "usdcOnBase")
               /\ snapshot'.ethOnArb = valueOf(reads', "ethOnArb")
       /\ Submitted => reads' = reads /\ snapshot' = snapshot
       /\ \A k \in LegPosts("arbitrum") :
            posts'[k].body.value
                = <<"0", "x">> \o toString(snapshot'.ethOnArb - gasReserve, 16)
       /\ wdPc = "awaitBalances" /\ wdPc' = "caught" => ~Submitted'
      ]_vars

C21_Witness ==
    /\ legs = [usdc |-> "resolved", eth |-> "inflight"]
    /\ snapshot = [usdcOnBase |-> 5000000, ethOnArb |-> gasReserve + 1]
    /\ Len(posts) = 2
    /\ Len(reads) = 3

\* C22: when a withdrawal reaches its ETH leg with the balance b on arbitrum
\* and the gas reserve r, the leg's intent is submitted exactly when b > r and
\* its value is b - r; with b <= r, b = r included, the leg is skipped; no
\* intent on arbitrum has the value zero.
C22_ReserveKept ==
    /\ legs.eth = "skipped" <=> legs.eth # "none" /\ snapshot.ethOnArb <= gasReserve
    /\ LegPosts("arbitrum") # {} <=> legs.eth \notin {"none", "skipped"}
    /\ \A k \in LegPosts("arbitrum") :
        /\ snapshot.ethOnArb > gasReserve
        /\ posts[k].body.value
                = <<"0", "x">> \o toString(snapshot.ethOnArb - gasReserve, 16)
        /\ posts[k].body.value # <<"0", "x", "0">>
        /\ posts[k].body.to = destination

C22_Witness ==
    /\ wdPc = "complete"
    /\ snapshot.ethOnArb = gasReserve
    /\ legs.eth = "skipped"
    /\ legs.usdc = "resolved"

\* What a token contract makes of call data: the function its selector names
\* and the arguments in the two words after it.
decodeFunctionData(data) ==
    CASE data = "0xa9059cbb 00..D1 00..4c4b40"
            -> [functionName |-> "transfer", to |-> "0xD1", amount |-> 5000000]
      [] data = "0xa9059cbb 00..D1 00..01"
            -> [functionName |-> "transfer", to |-> "0xD1", amount |-> 1]
      [] data = "0x095ea7b3 00..D1 00..4c4b40"
            -> [functionName |-> "approve", to |-> "0xD1", amount |-> 5000000]
      [] data = "0x095ea7b3 00..D1 00..01"
            -> [functionName |-> "approve", to |-> "0xD1", amount |-> 1]
      [] OTHER -> [functionName |-> Undefined, to |-> Undefined, amount |-> 0]

\* C23: the USDC leg is skipped exactly when the snapshot's USDC balance is 0
\* and submitted otherwise; its intent goes to the token contract on base
\* with the value 0 and the call data of transfer(destination, the whole
\* snapshot balance).
C23_FullStableBalance ==
    /\ legs.usdc = "skipped" <=> legs.usdc # "none" /\ snapshot.usdcOnBase = 0
    /\ LegPosts("base") # {} <=> legs.usdc \notin {"none", "skipped"}
    /\ \A k \in LegPosts("base") :
        /\ snapshot.usdcOnBase > 0
        /\ posts[k].body.to = USDC_BASE
        /\ posts[k].body.value = <<"0", "x", "0">>
        /\ decodeFunctionData(posts[k].body.data)
                = [functionName |-> "transfer", to |-> destination,
                   amount |-> snapshot.usdcOnBase]

C23_Witness ==
    /\ legs.usdc = "resolved"
    /\ snapshot.usdcOnBase = 5000000
    /\ posts[1].body.chain = "base"
    /\ posts[1].body.data = "0xa9059cbb 00..D1 00..4c4b40"

\* The withdrawal stream of the POST has come to its end.
WithdrawOver == flow = "api" /\ wdPc \in {"complete", "caught"}

\* The complete and error events of the stream, in order.
TerminalEvents == SelectSeq(sse, LAMBDA e : e.event \in {"complete", "error"})

\* The terminal outcome the stream reported.
Outcome ==
    IF TerminalEvents[1].event = "error" THEN "FAILED" ELSE TerminalEvents[1].status

LegStates == {legs.usdc, legs.eth}

\* Exactly one terminal event is reported, as the last event of the stream,
\* and none while the operation runs.
OneOutcome ==
    /\ flow = "api" /\ ~WithdrawOver => TerminalEvents = <<>>
    /\ WithdrawOver
        => /\ Len(TerminalEvents) = 1
           /\ TerminalEvents[1] = sse[Len(sse)]
           /\ Outcome \in {"EMPTY", "SUCCESS", "FAILED"}
           /\ closes = 1

\* C24 as stated: the outcome is EMPTY exactly when every leg was skipped,
\* SUCCESS exactly when a leg was submitted and every submitted leg confirmed,
\* and an error exactly when a submitted leg failed.
C24_Original ==
    /\ OneOutcome
    /\ WithdrawOver
        => /\ Outcome = "EMPTY" <=> LegStates = {"skipped"}
           /\ Outcome = "SUCCESS"
                <=> "resolved" \in LegStates /\ LegStates \subseteq {"resolved", "skipped"}
           /\ Outcome = "FAILED" <=> "rejected" \in LegStates

\* C24, amended: the outcome is EMPTY exactly when every leg was skipped,
\* SUCCESS exactly when a leg was submitted and every submitted leg confirmed,
\* and an error exactly when a submitted leg failed or the wallet or a
\* balance read failed before any leg; exactly one of the three is reported.
C24_OutcomeOfLegs ==
    /\ OneOutcome
    /\ WithdrawOver
        => /\ Outcome = "EMPTY" <=> LegStates = {"skipped"}
           /\ Outcome = "SUCCESS"
                <=> "resolved" \in LegStates /\ LegStates \subseteq {"resolved", "skipped"}
           /\ Outcome = "FAILED"
                <=> "rejected" \in LegStates \/ LegStates = {"none"}
           /\ LegStates = {"none"} => posts = <<>>

C24_Witness ==
    /\ WithdrawOver
    /\ Outcome = "EMPTY"
    /\ snapshot = [usdcOnBase |-> 0, ethOnArb |-> gasReserve]

\* The legs that resolved a hash, in leg order, with the label of each: the
\* amount of the posted intent and the chain.
ConfirmedLegs ==
    (IF legs.usdc = "resolved"
     THEN <<[chainId |-> 8453,
             label |-> formatUnits(
                         decodeFunctionData(posts[1].body.data).amount, 6)
                         \o <<" USDC (Base)">>]>>
     ELSE <<>>)
    \o (IF legs.eth = "resolved"
        THEN <<[chainId |-> 42161,
                label |-> formatUnits(snapshot.ethOnArb - gasReserve, 4)
                            \o <<" ETH (Arbitrum)">>]>>
        ELSE <<>>)

\* C25: on the stream of a withdrawal the receipts are one per leg that
\* resolved a hash, in leg order, each with the hash its sendTransaction
\* resolved and a label of the amount sent and the chain; a skipped leg adds
\* none; the SUCCESS event carries that list (5 USDC on base and no ETH on
\* arbitrum give the one receipt "5 USDC (Base)" and no intent on arbitrum).
C25_ReceiptPerLeg ==
    [][flow' = "api" =>
        /\ Len(txs') = Len(ConfirmedLegs')
        /\ \A k \in 1..Len(txs') :
            /\ txs'[k].label = ConfirmedLegs'[k].label
            /\ txs'[k].explorerUrl = <<ConfirmedLegs'[k].chainId, txs'[k].txHash>>
            /\ Truthy(txs'[k].txHash)
        /\ \A k \in 1..Len(txs) : txs'[k] = txs[k]
        /\ Len(txs') > Len(txs)
            => /\ Len(txs') = Len(txs) + 1
               /\ outcome = Resolved(txs'[Len(txs')].txHash)
        /\ WithdrawOver' /\ Outcome' = "SUCCESS"
            => sse'[Len(sse')].transactions = txs' /\ txs' # <<>>
        /\ WithdrawOver' /\ snapshot' = [usdcOnBase |-> 5000000, ethOnArb |-> 0]
                /\ Outcome' = "SUCCESS"
            => /\ Len(txs') = 1
               /\ txs'[1].label = <<"5", " USDC (Base)">>
               /\ LegPosts("arbitrum") = {}
      ]_vars

C25_Witness ==
    /\ WithdrawOver
    /\ Outcome = "SUCCESS"
    /\ snapshot = [usdcOnBase |-> 5000000, ethOnArb |-> 0]
    /\ Len(txs) = 1

\* C26: when the sendTransaction of a withdrawal leg rejects, the operation
\* ends there: the stream's last event is the error event with the message of
\* that rejection and there is no complete event (the script prints the
\* message and exits with 1); no intent is submitted after the one that
\* failed, so a failed USDC leg leaves the ETH leg undecided and a failed ETH
\* leg leaves a confirmed USDC leg with its one intent.
C26_FailedLegAborts ==
    [][/\ "rejected" \in LegStates' =>
            /\ wdPc' = "caught"
            /\ outcome'.kind = "rejected"
            /\ legs'.usdc = "rejected"
                    => legs'.eth = "none" /\ Len(posts') = 1 /\ txs' = <<>>
            /\ legs'.eth = "rejected"
                    => /\ legs'.usdc \in {"skipped", "resolved"}
                       /\ Len(posts') = Cardinality(LegPosts("base")') + 1
                       /\ posts'[Len(posts')].body.chain = "arbitrum"
            /\ flow' = "api"
                    => /\ sse'[Len(sse')] = ErrorEvent(<<outcome'.msg>>)
                       /\ EventsOf("complete")' = {}
                       /\ closes' = 1
            /\ flow' = "cli"
                    => /\ console'[Len(console')]
                            = ConsoleLine("error", <<"Error:", outcome'.msg>>)
                       /\ exitCode' = 1
       /\ "rejected" \in LegStates => posts' = posts
      ]_vars

C26_Witness ==
    /\ flow = "api"
    /\ legs = [usdc |-> "resolved", eth |-> "rejected"]
    /\ Len(posts) = 2
    /\ Len(txs) = 1
    /\ sse[Len(sse)].event = "error"

\* C27: a consumer that leaves the stream does not abort the withdrawal: when
\* it left while the USDC leg was in flight, that leg resolved and the
\* snapshot's ETH exceeds the gas reserve, the ETH leg's intent is submitted.
C27_DisconnectDoesNotAbort ==
    cancelled /\ legs.usdc = "resolved" /\ snapshot.ethOnArb > gasReserve
        => LegPosts("arbitrum") # {}

\* The calls that sent a lookup, and those that sent a create.
LookedUp == {k \in 1..Len(calls) : calls[k].getRes.fetch # "none" \/ calls[k].pc = "lookup"}

\* C28: a call of getOrCreateWallet sends one lookup and no second one, and
\* sends the create request exactly when the lookup came back 404; a lookup
\* that came back ok makes the call return the address it carried, or fail
\* when it carried none, without a create; any other status, or no answer,
\* fails the call without a create; a create that fails fails the call, and
\* one that succeeds makes the call return the address it carried.
C28_CreateOnlyOnNotFound ==
    /\ Len(lookups) = Cardinality({k \in 1..Len(calls) :
                            calls[k].error # NoApiKeyMessage})
    /\ Len(creates) = Cardinality({k \in 1..Len(calls) : calls[k].create # 0})
    /\ \A k \in 1..Len(calls) :
        LET call == calls[k]
        IN /\ call.create # 0
                <=> /\ call.getRes.fetch = "resolves"
                    /\ ~call.getRes.ok
                    /\ call.getRes.status = 404
           /\ call.create # 0 => creates[call.create].owner = BackendOwner(call.locator)
           /\ call.getRes.fetch = "resolves" /\ call.getRes.ok
                => IF call.getRes.json /\ Truthy(call.getRes.address)
                   THEN call.pc = "returned" /\ call.address = call.getRes.address
                   ELSE call.pc = "threw"
           /\ call.getRes.fetch = "rejects"
              \/ (call.getRes.fetch = "resolves" /\ ~call.getRes.ok
                    /\ call.getRes.status # 404)
                => call.pc = "threw"
           /\ call.createRes.fetch # "none"
                => IF /\ call.createRes.fetch = "resolves"
                      /\ call.createRes.ok
                      /\ call.createRes.json
                      /\ Truthy(call.createRes.address)
                   THEN call.pc = "returned" /\ call.address = call.createRes.address
                   ELSE call.pc = "threw"
           /\ call.pc = "returned" <=> call.address # Undefined

C28_Witness ==
    /\ Len(calls) = 2
    /\ calls[1].getRes.status = 500
    /\ calls[1].pc = "threw"
    /\ calls[2].getRes.status = 404
    /\ calls[2].pc = "returned"
    /\ Len(creates) = 1
    /\ Len(lookups) = 2

\* C29: two calls of getOrCreateWallet for the same locator, the second
\* begun after the first had returned, return the same address, whether the
\* first found the wallet or provisioned it.
C29_SameAddressTwice ==
    \A j, k \in 1..Len(calls) :
        /\ j < k
        /\ calls[k].sequential
        /\ calls[j].locator = calls[k].locator
        /\ calls[j].pc = "returned"
        /\ calls[k].pc = "returned"
        => calls[j].address = calls[k].address

C29_Witness ==
    /\ Len(calls) = 2
    /\ calls[1].locator = "email:a@b.co:evm:smart"
    /\ calls[2].locator = "email:a@b.co:evm:smart"
    /\ calls[1].create = 1
    /\ calls[1].pc = "returned"
    /\ calls[2].sequential
    /\ calls[2].create = 0
    /\ calls[2].pc = "returned"

\* C30: the wallet of a locator is resolved on first use and reused from a
\* cache: no locator is looked up twice and no owner is provisioned twice.
C30_ResolvedOnce ==
    /\ \A j, k \in 1..Len(lookups) : lookups[j] = lookups[k] => j = k
    /\ \A j, k \in 1..Len(creates) : creates[j].owner = creates[k].owner => j = k

\* The operation that began first failed at its await of getOrCreateWallet
\* because the key was not set.
FailedForTheKey ==
    /\ calls # <<>>
    /\ calls[1].error = NoApiKeyMessage
    /\ reads = <<>>
    /\ wdPc = "caught" \/ bridgePc = "caught"

\* C31: a call of getOrCreateWallet or getWalletBalances made while the API
\* key is not set throws the key's message at once and sends no request; a
\* call that threw is never taken up again; the stream of the bridge or
\* withdraw POST that made the call ends with the error event carrying that
\* message, and the scripts print it.
C31_NoSecretFailsFast ==
    [][/\ ~Truthy(env) /\ Len(calls') > Len(calls)
            => /\ calls'[Len(calls')].pc = "threw"
               /\ calls'[Len(calls')].error = NoApiKeyMessage
               /\ lookups' = lookups /\ creates' = creates
       /\ ~Truthy(env) /\ Len(balanceCalls') > Len(balanceCalls)
            => /\ balanceCalls'[Len(balanceCalls')].pc = "threw"
               /\ balanceCalls'[Len(balanceCalls')].error = NoApiKeyMessage
               /\ ~balanceCalls'[Len(balanceCalls')].sent
       /\ \A k \in 1..Len(calls) :
            calls[k].pc = "threw" => calls'[k] = calls[k] /\ Len(lookups') <= Len(calls')
       /\ \A k \in 1..Len(balanceCalls) :
            balanceCalls[k].pc = "threw" => balanceCalls'[k] = balanceCalls[k]
       /\ FailedForTheKey'
            => /\ posts' = <<>> /\ Len(lookups') < Len(calls')
               /\ flow' = "api"
                    => sse'[Len(sse')] = ErrorEvent(<<NoApiKeyMessage>>) /\ closes' = 1
               /\ flow' = "cli"
                    => /\ console'[Len(console')].stream = "error"
                       /\ console'[Len(console')].text[2] = NoApiKeyMessage
                       /\ exitCode' = 1
      ]_vars

C31_Witness ==
    /\ FailedForTheKey
    /\ flow = "api"
    /\ wdPc = "caught"
    /\ ~Truthy(env)
    /\ Len(balanceCalls) = 1
    /\ balanceCalls[1].error = NoApiKeyMessage

\* The reply the forwarded call was settled with.
LastReply == rpcReplies'[Len(rpcReplies')]

\* C32: forwardToRpc issues exactly one JSON-RPC POST per call and never
\* retries: when the POST settles nothing more is sent; a non-success HTTP
\* status fails the call with a message naming the status and its text, an
\* error object in the body fails it with a message naming the error's code
\* and message, and otherwise the body's result is returned unchanged.
C32_ForwardOnce ==
    [][/\ (adapterPc = "ready" /\ adapterPc' = "awaitRpc")
            => /\ Len(rpcCalls') = Len(rpcCalls) + 1
               /\ rpcReplies' = rpcReplies
       /\ (adapterPc = "awaitRpc" /\ adapterPc' # "awaitRpc")
            => /\ rpcCalls' = rpcCalls
               /\ Len(rpcCalls') = 1
               /\ Len(rpcReplies') = 1
               /\ (LastReply.fetch = "resolves" /\ ~LastReply.ok)
                    => /\ adapterPc' = "threw"
                       /\ result'.kind = "threw"
                       /\ result'.msg = "RPC request failed"
                       /\ result'.detail = String(LastReply.status)
                                             \o <<LastReply.statusText>>
               /\ (/\ LastReply.fetch = "resolves" /\ LastReply.ok
                   /\ LastReply.json = "resolves" /\ LastReply.error # NoRpcError)
                    => /\ adapterPc' = "threw"
                       /\ result'.kind = "threw"
                       /\ result'.msg = "RPC error"
                       /\ result'.detail = String(LastReply.error.code)
                                             \o <<LastReply.error.message>>
               /\ (/\ LastReply.fetch = "resolves" /\ LastReply.ok
                   /\ LastReply.json = "resolves" /\ LastReply.error = NoRpcError)
                    => /\ adapterPc' = "returned"
                       /\ result' = Returned(LastReply.result)
      ]_vars

C32_Witness ==
    /\ adapterPc = "threw"
    /\ Len(rpcCalls) = 1
    /\ rpcReplies = <<RpcReply("resolves", 500, "Internal Server Error", "resolves",
                               NoRpcError, Undefined)>>
    /\ result.detail = <<"5", "0", "0", "Internal Server Error">>

\* C33: every route execution issued, from the bridge POST and from the
\* script alike, calls executeRoute with message signing disabled, and a
\* bridge that is executing or has executed has made exactly that one call.
C33_MessageSigningDisabled ==
    /\ \A k \in 1..Len(executeRouteCalls) :
          executeRouteCalls[k].disableMessageSigning = TRUE
    /\ bridgePc \in {"executing", "complete"}
          => /\ Len(executeRouteCalls) = 1
             /\ executeRouteCalls[1].route = route.id

C33_Witness ==
    /\ bridgePc = "complete"
    /\ flow = "cli"
    /\ Len(executeRouteCalls) = 1
    /\ executeRouteCalls[1].disableMessageSigning

\* The bridge POST has run to its end.
BridgeOver == flow = "api" /\ bridgePc \in {"insufficient", "noRoute", "complete", "caught"}

\* C34: on every path of a bridge or withdraw POST that opened its stream,
\* the stream carries exactly one terminal event (complete or error), which
\* is its last event, and controller.close() is called exactly once, after
\* it; while the operation runs there is no terminal event and no close.
C34_OneTerminalEventOneClose ==
    /\ (flow = "api" /\ ~BridgeOver /\ ~WithdrawOver)
          => TerminalEvents = <<>> /\ closes = 0
    /\ (BridgeOver \/ WithdrawOver)
          => /\ Len(TerminalEvents) = 1
             /\ TerminalEvents[1] = sse[Len(sse)]
             /\ closes = 1

\* C35: when executions configured with different wallets interleave, every
\* intent of an execution is submitted under the locator of the wallet that
\* execution's caller configured: a later configureLifi call does not
\* redirect the signing of another caller's execution.
C35_OwnWalletPerExecution ==
    \A k \in 1..Len(signedUnder) : posts[k].locator = runs[signedUnder[k]].wallet

\* C36: an operation the page starts acts on the wallet the page displays:
\* the locator of the getOrCreateWallet call of the withdrawal or bridge the
\* server is serving, under which its balances are read and its intents
\* submitted, is the locator of the wallet of the page's session.
C36_ActsOnDisplayedWallet ==
    served.call # 0 => calls[served.call].locator = Displayed

\* C37: on a succeeded bridge the complete event's toAmount is the final
\* received amount of the resolved execution result, and its toToken is the
\* symbol of the destination asset.
C37_ReportsReceivedAmount ==
    (bridgePc = "complete" /\ flow = "api")
        => /\ sse[Len(sse)].event = "complete"
           /\ sse[Len(sse)].toAmount
                = toFixed(routeResult.toAmount, route.toToken.decimals)
           /\ sse[Len(sse)].toToken = route.toToken.symbol

\* The intents a withdrawal of a snapshot to a destination is to submit, in
\* order: the whole USDC balance on base when there is any, then the ETH on
\* arbitrum above the gas reserve when there is any.
ExpectedIntents(snap, dest) ==
    (IF snap.usdcOnBase > 0
     THEN <<IntentBody([to |-> USDC_BASE,
                        data |-> encodeFunctionData(dest, snap.usdcOnBase),
                        value |-> 0, crossmintChain |-> "base"])>>
     ELSE <<>>)
    \o (IF snap.ethOnArb > gasReserve
        THEN <<IntentBody([to |-> dest, data |-> Undefined,
                           value |-> snap.ethOnArb - gasReserve,
                           crossmintChain |-> "arbitrum"])>>
        ELSE <<>>)

\* The operation said that there was nothing to withdraw.
SaidNothingToWithdraw ==
    IF flow = "api"
    THEN sse[Len(sse)].event = "complete" /\ sse[Len(sse)].status = "EMPTY"
    ELSE console[Len(console)].text = <<"Nothing to withdraw - all balances are zero.">>

\* C38: the script and the POST are the same sequencer: whichever runs, the
\* intents it has submitted are the first of the intents expected of the
\* snapshot and the destination (same legs, order, destinations, amounts and
\* chains), all of them once it completes, and it says that there is nothing
\* to withdraw exactly when none is expected.
C38_SameSequencer ==
    /\ snapshot # NoSnapshot
        => /\ Len(posts) <= Len(ExpectedIntents(snapshot, destination))
           /\ \A k \in 1..Len(posts) :
                posts[k].body = ExpectedIntents(snapshot, destination)[k]
    /\ wdPc = "complete"
        => /\ Len(posts) = Len(ExpectedIntents(snapshot, destination))
           /\ SaidNothingToWithdraw <=> ExpectedIntents(snapshot, destination) = <<>>

C38_Witness ==
    /\ wdPc = "complete"
    /\ flow = "cli"
    /\ snapshot = [usdcOnBase |-> 5000000, ethOnArb |-> gasReserve + 10]
    /\ Len(posts) = 2
    /\ posts[2].body.chain = "arbitrum"
    /\ posts[2].body.value = <<"0", "x", "a">>

\* C39: a withdraw POST whose destination is missing, does not start with 0x
\* or is not 42 characters long is answered with 400 and has no effect: no
\* stream is opened, the wallet is neither looked up nor provisioned, no
\* balance is read and no intent is submitted; a valid one is never answered
\* with 400.
C39_InvalidDestinationRejected ==
    /\ (/\ served.kind = "withdraw"
        /\ \/ served.destination \in {Undefined, ""}
           \/ SubSeq(chars(served.destination), 1, 2) # <<"0", "x">>
           \/ Len(chars(served.destination)) # 42)
          => /\ response \in {NoJson, BadRequest}
             /\ wdPc = "idle" /\ flow = Undefined
             /\ sse = <<>> /\ closes = 0
             /\ calls = <<>> /\ lookups = <<>> /\ creates = <<>>
             /\ reads = <<>>
             /\ posts = <<>> /\ sendCalls = 0
    /\ (served.kind = "withdraw" /\ served.destination = "0xD1")
          => response = NoJson

C39_Witness ==
    /\ served.destination = "0xD"
    /\ response = BadRequest
    /\ wdPc = "idle"

====
